---- MODULE Spec2Model ----
(***************************************************************************)
(* FlowCSS core: the frame-budgeted scheduler and evaluator                *)
(* (ExecutionEngine), the reactive variable graph (FlowVariable), the      *)
(* engine (FlowEngine), the result cache (CacheManager) and the parser     *)
(* (FlowParser), modelled from src/flowcss/src.                            *)
(*                                                                         *)
(* Specifications:                                                         *)
(*   Spec         the scheduler: schedule / executeFrame, any clock, tasks *)
(*                whose evaluation succeeds                                *)
(*   FaultSpec    the scheduler with tasks whose evaluation may throw      *)
(*   FaultLiveSpec  FaultSpec with a frame that has begun running on       *)
(*   LiveSpec     the scheduler with every evaluation taking the chunk's   *)
(*                own estimate (estimatedMs), frames running for ever      *)
(*   GraphSpec    three variables: set / markDirty / addDependency /       *)
(*                removeDependency / dispose                               *)
(*   SubSpec      two variables with subscribers (one of which throws),    *)
(*                set / compute and a clock                                *)
(*   ReentrySpec  one variable whose subscriber sets it again while it is  *)
(*                being notified                                           *)
(*   FlowSpec     the engine's flow(...) and the frames that run its tasks *)
(*   TickSpec     the engine's start / stop / _tick and the host's frame   *)
(*                callbacks, subscribers calling back into the engine      *)
(*   RegistrySpec the engine's variable(...) registry and dispose          *)
(*   EventSpec    the engine's frames, dispose and the host's mousemove    *)
(*                and resize events                                        *)
(*   DomSpec      the DOM bridge: style / flush and a variable bound to    *)
(*                style properties                                         *)
(*   CacheSpec    the cache: set / get / has / delete / clear, any clock   *)
(*   KeySpec      generateKey on pairs of inputs drawn at the start        *)
(*   ParseSpec    parse and the evaluator on sources drawn at the start    *)
(*   PropSpec     two variables: set / markDirty with the dirty            *)
(*                propagation taken one _notifyDependents visit at a time  *)
(***************************************************************************)
EXTENDS Integers, Sequences, FiniteSets, TLC

VARIABLES
  \* ---- ExecutionEngine ----
  taskQueue,    \* _taskQueue: sequence of task records
  cur,          \* the task executeFrame popped and is running (NoTask: none)
  chunkIndex,   \* the local chunkIndex of _executeChunkedTask
  pc,           \* position of executeFrame: idle / loop / simple / chunk / resched
  elapsed,      \* performance.now() - _frameStartTime during a frame, saturated at maxFrameTime
  nextId,       \* id of the next task a caller creates
  \* ---- observations of the scheduler ----
  startOrder,   \* the tasks (id and priority) in the order of their first pop
  preloaded,    \* no task was scheduled after the first pop
  lastSched,    \* id of the task the step just taken passed to schedule (0: none)
  lastPause,    \* what the step just taken resubmitted (NoPause: nothing)
  threw,        \* whether the chunk loop just left was left by a chunk throwing
  lastFail,     \* the unit of work the step just taken gave up after it threw (NoFail: none)
  notified,     \* the completion the step just taken reported (NoNote: none)
  failedNow,    \* ids of the tasks a chunk of which threw in the executeFrame call in progress
  \* ---- FlowVariable ----
  value,        \* _value
  dirty,        \* _dirty
  dependencies, \* _dependencies: names
  dependents,   \* _dependents: variables
  listeners,    \* _listeners, in insertion order
  lastComputed, \* _lastComputed
  now,          \* performance.now() as the variables read it
  \* ---- observations of the variables ----
  calls,        \* subscriber calls made by the step just taken, in order
  lastOp,       \* the operation the step just taken performed
  \* ---- FlowEngine ----
  registry,     \* _variables: the instance held under each name (0: no entry)
  nextInst,     \* number of the next FlowVariable constructed
  returned,     \* the instance the last variable(...) call returned (0: none yet)
  dateNow,      \* Date.now()
  flows,        \* the flow(...) calls made: task id and result variable of each
  isRunning,    \* _isRunning
  animationFrame, \* _animationFrame: the last handle requestAnimationFrame gave (0: undefined)
  pending,      \* the handles of the tick callbacks the host holds
  nextHandle,   \* the handle requestAnimationFrame gives next
  frameCount,   \* _context.frameCount
  tickStack,    \* the _tick calls in progress, innermost last, each with its position
  \* ---- CacheManager ----
  cache,        \* _cache: the entries in the Map's (insertion) order
  accessCount,  \* _accessCount: the counters in the Map's (insertion) order
  maxSize,      \* _maxSize
  cacheRet,     \* what the last get or has returned (NoRet: neither was called last)
  cacheOp,      \* the last call made on the cache: method, key and ttlMs
  keyPending,   \* the generateKey calls a caller is about to make: expression and mapping
  keyCalls,     \* the generateKey calls made: expression, mapping and key returned
  \* ---- FlowParser and the evaluator ----
  source,       \* the source a caller passes to parse
  parsed,       \* what parse returned (NoParse: not called yet)
  evaluated,    \* the expression evaluated and its value (NoValue: none yet)
  \* ---- dirty propagation, call by call ----
  callStack,    \* the _notifyDependents calls in progress, outermost first:
                \* the variable and its dependents not yet visited
  markCalls,    \* markDirty calls made since the propagation in hand began
  \* ---- DOMBridge ----
  pendingApplications, \* _pendingApplications: element, property and value of each
  elementStyle  \* element.style of each element: the value set under each CSS property

schedVars == <<taskQueue, cur, chunkIndex, pc, elapsed, nextId,
               startOrder, preloaded, lastSched, lastPause, threw, lastFail,
               notified, failedNow>>
varVars   == <<value, dirty, dependencies, dependents, listeners,
               lastComputed, now, calls, lastOp>>
engVars   == <<registry, nextInst, returned, dateNow, flows>>
tickVars  == <<isRunning, animationFrame, pending, nextHandle, frameCount, tickStack>>
cacheVars == <<cache, accessCount, maxSize, cacheRet, cacheOp>>
keyVars   == <<keyPending, keyCalls>>
parseVars == <<source, parsed, evaluated>>
propVars  == <<callStack, markCalls>>
domVars   == <<pendingApplications, elementStyle>>
pureVars  == <<keyVars, parseVars, propVars, domVars>>
otherVars == <<engVars, tickVars, cacheVars, pureVars>>
vars      == <<schedVars, varVars, otherVars>>

(***************************************************************************)
(* Bounds and program constants                                            *)
(***************************************************************************)
MaxTasks == 3            \* tasks a run creates
MaxFaultTasks == 2       \* tasks a run creates when evaluations may throw
MaxDur == 2              \* longest a single evaluation takes, in ms
MaxLag == 1              \* now - frameStartTime when executeFrame is entered
MaxClock == 2            \* largest clock value the variables read
MaxDate == 2             \* largest value Date.now() takes
MaxFlows == 2            \* flow(...) calls a run makes
MaxFrames == 3           \* tick bodies a run executes
MaxInstances == 8        \* FlowVariable instances an engine constructs
MaxCacheSize == 2        \* largest maxSize a cache is built with
MaxAccess == 2           \* largest access counter a run drives a key to
MaxTtl == 1              \* largest ttlMs passed to set
MaxDepth == 2            \* _tick calls nested in one another
MaxMarkCalls == 12       \* markDirty calls one propagation is followed for
maxFrameTime == 4        \* config.maxFrameTime: the engine is configured with a 4 ms frame

ChunkThreshold == 100    \* task.expression.complexity > 100
ChunkDivisor == 10       \* Math.floor(complexity / 10)
estimatedMs == 2         \* estimatedMs: 2
PopThreshold == 2        \* _getRemainingFrameTime() > 2
ChunkTimeThreshold == 1  \* _getRemainingFrameTime() > 1

Priorities == {1, 3, 5}
Complexities == {100, 101}

Max(a, b) == IF a >= b THEN a ELSE b
Min(a, b) == IF a <= b THEN a ELSE b

(***************************************************************************)
(* ExecutionEngine                                                         *)
(***************************************************************************)
NoTask == [id |-> 0, priority |-> 0, complexity |-> 0, throws |-> FALSE,
           chunked |-> FALSE, chunks |-> <<>>]
NoPause == [id |-> 0, k |-> 0, before |-> <<>>]
NoFail == [id |-> 0, chunk |-> -1]
NoNote == [id |-> 0, result |-> ""]

\* A task as a caller hands it to schedule: no chunks yet.  throws: whether
\* evaluating its expression throws (every chunk evaluates the whole expression).
NewTask(id, p, c, th) ==
  [id |-> id, priority |-> p, complexity |-> c, throws |-> th,
   chunked |-> FALSE, chunks |-> <<>>]

\* _chunkComputation: chunks 0 .. chunkSize-1, each identified by its index.
chunkComputation(task) ==
  LET chunkSize == Max(1, task.complexity \div ChunkDivisor)
  IN  [i \in 1..chunkSize |-> i - 1]

\* findIndex(t => t.priority < task.priority): 0 stands for -1.
FindIndexAsc(q, task) ==
  IF \E i \in 1..Len(q) : q[i].priority > task.priority
  THEN CHOOSE i \in 1..Len(q) :
         /\ q[i].priority > task.priority
         /\ \A j \in 1..(i-1) : ~(q[j].priority > task.priority)
  ELSE 0
FindIndexLeq(q, task) ==
  IF \E i \in 1..Len(q) : q[i].priority <= task.priority
  THEN CHOOSE i \in 1..Len(q) :
         /\ q[i].priority <= task.priority
         /\ \A j \in 1..(i-1) : ~(q[j].priority <= task.priority)
  ELSE 0
findIndex(q, task) ==
  IF \E i \in 1..Len(q) : q[i].priority < task.priority
  THEN CHOOSE i \in 1..Len(q) :
         /\ q[i].priority < task.priority
         /\ \A j \in 1..(i-1) : ~(q[j].priority < task.priority)
  ELSE 0

\* schedule(task): the queue after the call.
schedule(q, task) ==
  LET t == IF task.complexity > ChunkThreshold
           THEN [task EXCEPT !.chunked = TRUE, !.chunks = chunkComputation(task)]
           ELSE task
      insertIndex == findIndex(q, t)
  IN  IF insertIndex = 0
      THEN Append(q, t)
      ELSE SubSeq(q, 1, insertIndex - 1) \o <<t>> \o SubSeq(q, insertIndex, Len(q))

\* _getRemainingFrameTime, e being performance.now() - _frameStartTime.
getRemainingFrameTime(e) == Max(0, maxFrameTime - e)

\* The clock after an evaluation of d ms.  Past maxFrameTime the remaining time
\* is 0 whatever the clock says, so the elapsed time is kept saturated there.
Advance(e, d) == Min(e + d, maxFrameTime)

\* The loop conditions of executeFrame and of _executeChunkedTask.
MayPopLax(q, e) == Len(q) > 0 /\ getRemainingFrameTime(e) > 0
MayPop(q, e) == Len(q) > 0 /\ getRemainingFrameTime(e) > PopThreshold
MayRunChunk(task, k, e) ==
  k < Len(task.chunks) /\ getRemainingFrameTime(e) > ChunkTimeThreshold

\* What _evaluateExpression returns for a task's expression when it does not
\* throw.  Tasks differ in complexity and in whether evaluation throws, not in
\* the value they yield.
EvalResult == "1"

\* _notifyCompletion(taskId, result): the completion is logged, nothing else.
NoCompletion(taskId, result) == NoNote
notifyCompletion(taskId, result) == [id |-> taskId, result |-> result]

\* this.schedule(task) at the end of _executeChunkedTask: the paused task
\* goes through schedule as a task a caller hands in does.
ResubmitFirst(q, task) == <<task>> \o q
resubmit(q, task) == schedule(q, task)

\* this._taskQueue.shift(): the task popped and the queue left.
shift(q) == [task |-> Head(q), rest |-> Tail(q)]

Started(id) == \E i \in 1..Len(startOrder) : startOrder[i].id = id

\* A caller creates a task and schedules it.
Schedule(p, c, th) ==
  /\ pc = "idle"
  /\ LET task == NewTask(nextId, p, c, th)
     IN  /\ taskQueue' = schedule(taskQueue, task)
         /\ lastSched' = task.id
  /\ nextId' = nextId + 1
  /\ preloaded' = (preloaded /\ startOrder = <<>>)
  /\ lastPause' = NoPause
  /\ lastFail' = NoFail
  /\ notified' = NoNote
  /\ UNCHANGED <<cur, chunkIndex, pc, elapsed, startOrder, threw, failedNow>>
  /\ UNCHANGED <<varVars, otherVars>>

\* executeFrame(frameStartTime), entered lag ms after frameStartTime.
ExecuteFrameBody(lag) ==
  /\ pc = "idle"
  /\ pc' = "loop"
  /\ elapsed' = lag
  /\ lastSched' = 0
  /\ lastPause' = NoPause
  /\ lastFail' = NoFail
  /\ notified' = NoNote
  /\ failedNow' = {}
  /\ UNCHANGED <<taskQueue, cur, chunkIndex, nextId, startOrder, preloaded, threw>>

\* executeFrame called by the host of a bare scheduler.
ExecuteFrame(lag) ==
  /\ ExecuteFrameBody(lag)
  /\ UNCHANGED <<varVars, otherVars>>

\* The while loop of executeFrame: pop the head and dispatch, or return.
FrameLoop ==
  /\ pc = "loop"
  /\ IF MayPop(taskQueue, elapsed)
     THEN LET task == shift(taskQueue).task
          IN  /\ cur' = task
              /\ taskQueue' = shift(taskQueue).rest
              /\ pc' = IF task.chunked THEN "chunk" ELSE "simple"
              /\ startOrder' =
                   IF Started(task.id) THEN startOrder
                   ELSE Append(startOrder,
                               [id |-> task.id, priority |-> task.priority])
              /\ UNCHANGED <<elapsed, failedNow>>
     ELSE /\ pc' = "idle"
          /\ elapsed' = 0          \* the frame is over: the clock is not read again
          /\ failedNow' = {}
          /\ UNCHANGED <<cur, taskQueue, startOrder>>
  /\ chunkIndex' = 0
  /\ lastSched' = 0
  /\ lastPause' = NoPause
  /\ lastFail' = NoFail
  /\ notified' = NoNote
  /\ UNCHANGED <<nextId, preloaded, threw>>
  /\ UNCHANGED <<varVars, otherVars>>

\* _executeSimpleTask: evaluate, report completion or log the error.
ExecuteSimpleTask(d) ==
  /\ pc = "simple"
  /\ lastFail' = IF cur.throws THEN [id |-> cur.id, chunk |-> -1] ELSE NoFail
  /\ notified' = IF cur.throws THEN NoNote ELSE notifyCompletion(cur.id, EvalResult)
  /\ elapsed' = Advance(elapsed, d)
  /\ cur' = NoTask
  /\ pc' = "loop"
  /\ lastSched' = 0
  /\ lastPause' = NoPause
  /\ UNCHANGED <<taskQueue, chunkIndex, nextId, startOrder, preloaded, threw, failedNow>>
  /\ UNCHANGED <<varVars, otherVars>>

\* One turn of the while loop of _executeChunkedTask.
ChunkLoop(d) ==
  /\ pc = "chunk"
  /\ IF MayRunChunk(cur, chunkIndex, elapsed)
     THEN /\ elapsed' = Advance(elapsed, d)
          /\ IF cur.throws
             THEN /\ threw' = TRUE
                  /\ pc' = "resched"
                  /\ UNCHANGED chunkIndex
             ELSE /\ chunkIndex' = chunkIndex + 1
                  /\ UNCHANGED <<threw, pc>>
     ELSE /\ pc' = "resched"
          /\ UNCHANGED <<elapsed, chunkIndex, threw>>
  /\ lastSched' = 0
  /\ lastPause' = NoPause
  /\ lastFail' = NoFail
  /\ notified' = NoNote
  /\ UNCHANGED <<taskQueue, cur, nextId, startOrder, preloaded, failedNow>>
  /\ UNCHANGED <<varVars, otherVars>>

\* The end of _executeChunkedTask: reschedule what is left, if anything.
Reschedule ==
  /\ pc = "resched"
  /\ IF chunkIndex < Len(cur.chunks)
     THEN /\ taskQueue' =
               resubmit(taskQueue,
                        [cur EXCEPT !.chunks =
                           SubSeq(cur.chunks, chunkIndex + 1, Len(cur.chunks))])
          /\ lastSched' = cur.id
          /\ lastPause' = [id |-> cur.id, k |-> chunkIndex, before |-> cur.chunks]
     ELSE /\ lastSched' = 0
          /\ lastPause' = NoPause
          /\ UNCHANGED taskQueue
  /\ lastFail' = IF threw THEN [id |-> cur.id, chunk |-> cur.chunks[chunkIndex + 1]]
                        ELSE NoFail
  /\ failedNow' = IF threw THEN failedNow \cup {cur.id} ELSE failedNow
  /\ threw' = FALSE
  /\ notified' = NoNote
  /\ cur' = NoTask
  /\ chunkIndex' = 0
  /\ pc' = "loop"
  /\ UNCHANGED <<elapsed, nextId, startOrder, preloaded>>
  /\ UNCHANGED <<varVars, otherVars>>

SchedInit ==
  /\ taskQueue = <<>>
  /\ cur = NoTask
  /\ chunkIndex = 0
  /\ pc = "idle"
  /\ elapsed = 0
  /\ nextId = 1
  /\ startOrder = <<>>
  /\ preloaded = TRUE
  /\ lastSched = 0
  /\ lastPause = NoPause
  /\ threw = FALSE
  /\ lastFail = NoFail
  /\ notified = NoNote
  /\ failedNow = {}

(***************************************************************************)
(* FlowVariable                                                            *)
(***************************************************************************)
Vars == {"a", "b", "c"}

\* The names an engine holds variables under: the built-ins the tick writes
\* (the other built-ins are written by the host's mouse and resize events
\* only) and the result variables of flow, `_result_${Date.now()}`.
Builtins == {"time", "frameCount"}
\* The built-ins the mousemove and the resize listeners write.
MouseNames == <<"mouseX", "mouseY">>
ViewportNames == <<"viewportWidth", "viewportHeight">>
EventBuiltins == {MouseNames[1], MouseNames[2], ViewportNames[1], ViewportNames[2]}
ResultName(t) == "_result_" \o ToString(t)
ResultNames == {ResultName(t) : t \in 1..MaxDate}
Names == Vars \cup Builtins \cup EventBuiltins \cup ResultNames

\* A number as a variable's value.
Num(n) == ToString(n)
Callbacks == {"f", "g"}
Undefined == "undefined"
NaN == "NaN"
NoOp == [op |-> "none", var |-> "", val |-> ""]

\* this._value !== newValue is the negation of strict equality; NaN === NaN is false.
StrictEq(u, v) == u = v /\ u # NaN

\* markDirty and _notifyDependents on the dirty flags d.  forEach visits the
\* dependents in insertion order; marking is idempotent, so the flags that
\* result do not depend on that order.
RECURSIVE markDirty(_, _), NotifyEach(_, _)
markDirty(d, x) ==
  IF ~d[x]
  THEN NotifyEach([d EXCEPT ![x] = TRUE], dependents[x])
  ELSE d
NotifyEach(d, S) ==
  IF S = {} THEN d
  ELSE LET y == CHOOSE z \in S : TRUE
       IN  NotifyEach(markDirty(d, y), S \ {y})
notifyDependents(d, x) == NotifyEach(d, dependents[x])

\* _notifyListeners: the calls made, in order; each callback is handed the new
\* value and can read the dirty flags as they are during the call.  The
\* callbacks in Throwing throw when called; the try around each call catches
\* the error, so forEach goes on to the next callback.
Throwing == {"g"}
Uncaught(cb) == FALSE
Caught(cb) == TRUE
Escapes(x) == {i \in 1..Len(listeners[x]) :
                 listeners[x][i] \in Throwing /\ ~Caught(listeners[x][i])}
Called(x) == IF Escapes(x) = {} THEN Len(listeners[x])
             ELSE CHOOSE i \in Escapes(x) : \A j \in Escapes(x) : i <= j
NotifyListenersReversed(x, v, d) ==
  [i \in 1..Called(x) |->
     [cb |-> listeners[x][Len(listeners[x]) + 1 - i], arg |-> v, dirtySeen |-> d]]
notifyListeners(x, v, d) ==
  [i \in 1..Called(x) |->
     [cb |-> listeners[x][i], arg |-> v, dirtySeen |-> d]]

\* ---- DOMBridge: the applications a subscriber of the bridge schedules ----
\* The elements and the (camelCase) style properties a caller passes to style.
Elements == {"e1", "e2"}
DomProperties == {"fontSize", "opacity"}
MaxBindings == 2         \* closures apply(...) subscribes in a run

\* apply subscribes a new closure per call: it is named after the element and
\* the property it captured and the number of the call that made it.
PairName(el, p) == el \o "/" \o p
BridgeName(el, p, n) == PairName(el, p) \o "#" \o ToString(n)
BridgeTargets == Elements \X DomProperties \X (1..MaxBindings)
IsBridge(cb) == \E t \in BridgeTargets : BridgeName(t[1], t[2], t[3]) = cb
BridgeTarget(cb) == CHOOSE t \in BridgeTargets : BridgeName(t[1], t[2], t[3]) = cb

\* _scheduleApplication(element, property, value)
scheduleApplication(apps, el, p, v) ==
  Append(SelectSeq(apps, LAMBDA app : ~(app.element = el /\ app.property = p)),
         [element |-> el, property |-> p, value |-> v])

\* The subscriber calls cs of one notification, in order: each closure of the
\* bridge schedules the value it was called with.
RECURSIVE RunBridge(_, _, _)
RunBridge(apps, cs, i) ==
  IF i > Len(cs) THEN apps
  ELSE LET c == cs[i]
           t == BridgeTarget(c.cb)
       IN  RunBridge(IF IsBridge(c.cb)
                     THEN scheduleApplication(apps, t[1], t[2], c.arg)
                     ELSE apps, cs, i + 1)

\* The guard of set: whether the call changes anything.
ChangesAlways(x, v) == TRUE
Changes(x, v) == ~StrictEq(value[x], v)

\* set(newValue), but for what the model records of the call.  An error that
\* left _notifyListeners would leave set before _notifyDependents.
SetBody(x, v) ==
  IF Changes(x, v)
  THEN LET d1 == [dirty EXCEPT ![x] = FALSE]
       IN  /\ value' = [value EXCEPT ![x] = v]
           /\ lastComputed' = [lastComputed EXCEPT ![x] = now]
           /\ calls' = notifyListeners(x, v, d1)
           /\ dirty' = IF Escapes(x) = {} THEN notifyDependents(d1, x) ELSE d1
  ELSE /\ calls' = <<>>
       /\ UNCHANGED <<value, lastComputed, dirty>>
Set(x, v) ==
  /\ SetBody(x, v)
  /\ lastOp' = [op |-> "set", var |-> x, val |-> v]
  /\ pendingApplications' = RunBridge(pendingApplications, calls', 1)
  /\ UNCHANGED <<dependencies, dependents, listeners, now>>
  /\ UNCHANGED <<schedVars, engVars, tickVars, cacheVars, keyVars, parseVars,
                 propVars, elementStyle>>

\* compute(fn): fn either throws or returns its result; the result is passed
\* to set inside the try, a throw is caught and logged.
Thrown == "throw"
Fn(throws, result) == [throws |-> throws, result |-> result]
ForwardedAlways(fn) == TRUE
Forwarded(fn) == ~fn.throws
Compute(x, fn) ==
  /\ IF Forwarded(fn)
     THEN SetBody(x, fn.result)
     ELSE /\ calls' = <<>>
          /\ UNCHANGED <<value, lastComputed, dirty>>
  /\ lastOp' = [op |-> "compute", var |-> x,
                val |-> IF fn.throws THEN Thrown ELSE fn.result]
  /\ UNCHANGED <<dependencies, dependents, listeners, now>>
  /\ UNCHANGED <<schedVars, otherVars>>

\* set(newValue) with subscribers that call back into the variable.  The
\* callbacks in Reentrant call set(EchoValue) on the variable they are
\* subscribed to whenever they are called.  s is the variable state the call
\* finds: values, dirty flags, timestamps and the subscriber calls made so
\* far.  forEach hands each callback this._value as it is when the callback
\* is called.
Reentrant == {"r"}
EchoValue == "2"
RECURSIVE setNested(_, _, _), ForEachListener(_, _, _)
setNested(s, x, v) ==
  IF StrictEq(s.value[x], v) THEN s
  ELSE LET s1 == [s EXCEPT !.value[x] = v, !.lastComputed[x] = now,
                           !.dirty[x] = FALSE]
           s2 == ForEachListener(s1, x, 1)
       IN  [s2 EXCEPT !.dirty = notifyDependents(s2.dirty, x)]
ForEachListener(s, x, i) ==
  IF i > Len(listeners[x]) THEN s
  ELSE LET cb == listeners[x][i]
           called == [s EXCEPT !.calls =
                        Append(@, [cb |-> cb, arg |-> s.value[x], dirtySeen |-> s.dirty])]
       IN  ForEachListener(IF cb \in Reentrant
                           THEN setNested(called, x, EchoValue)
                           ELSE called,
                           x, i + 1)
SetReentrant(x, v) ==
  /\ LET s == setNested([value |-> value, dirty |-> dirty,
                         lastComputed |-> lastComputed, calls |-> <<>>], x, v)
     IN  /\ value' = s.value
         /\ dirty' = s.dirty
         /\ lastComputed' = s.lastComputed
         /\ calls' = s.calls
  /\ lastOp' = [op |-> "set", var |-> x, val |-> v]
  /\ UNCHANGED <<dependencies, dependents, listeners, now>>
  /\ UNCHANGED <<schedVars, otherVars>>

\* markDirty()
MarkDirty(x) ==
  /\ dirty' = markDirty(dirty, x)
  /\ calls' = <<>>
  /\ lastOp' = NoOp
  /\ UNCHANGED <<value, dependencies, dependents, listeners, lastComputed, now>>
  /\ UNCHANGED <<schedVars, otherVars>>

\* x.addDependency(y)
AddDependency(x, y) ==
  /\ dependencies' = [dependencies EXCEPT ![x] = @ \cup {y}]
  /\ dependents' = [dependents EXCEPT ![y] = @ \cup {x}]
  /\ calls' = <<>>
  /\ lastOp' = NoOp
  /\ UNCHANGED <<value, dirty, listeners, lastComputed, now>>
  /\ UNCHANGED <<schedVars, otherVars>>

\* x.removeDependency(y)
RemoveDependency(x, y) ==
  /\ dependencies' = [dependencies EXCEPT ![x] = @ \ {y}]
  /\ dependents' = [dependents EXCEPT ![y] = @ \ {x}]
  /\ calls' = <<>>
  /\ lastOp' = NoOp
  /\ UNCHANGED <<value, dirty, listeners, lastComputed, now>>
  /\ UNCHANGED <<schedVars, otherVars>>

\* dispose()
Dispose(x) ==
  /\ listeners' = [listeners EXCEPT ![x] = <<>>]
  /\ dependencies' = [dependencies EXCEPT ![x] = {}]
  /\ dependents' = [dependents EXCEPT ![x] = {}]
  /\ calls' = <<>>
  /\ lastOp' = NoOp
  /\ UNCHANGED <<value, dirty, lastComputed, now>>
  /\ UNCHANGED <<schedVars, otherVars>>

\* Dirty propagation call by call.  A frame of callStack is a
\* _notifyDependents call: the variable whose dependents are visited and the
\* dependents forEach has not visited yet (any order stands for the order of
\* insertion).  markDirty returns at once on a variable that is dirty.
MarkedNever(d, y) == FALSE
MarkedAlready(d, y) == d[y]
StartNotify(x) == <<[var |-> x, todo |-> dependents[x]]>>

\* set(newValue) up to its call of _notifyDependents.
SetCall(x, v) ==
  /\ callStack = <<>>
  /\ IF Changes(x, v)
     THEN /\ value' = [value EXCEPT ![x] = v]
          /\ lastComputed' = [lastComputed EXCEPT ![x] = now]
          /\ dirty' = [dirty EXCEPT ![x] = FALSE]
          /\ calls' = notifyListeners(x, v, dirty')
          /\ callStack' = StartNotify(x)
     ELSE /\ calls' = <<>>
          /\ UNCHANGED <<value, lastComputed, dirty, callStack>>
  /\ markCalls' = 0
  /\ lastOp' = [op |-> "set", var |-> x, val |-> v]
  /\ UNCHANGED <<dependencies, dependents, listeners, now>>
  /\ UNCHANGED <<schedVars, engVars, tickVars, cacheVars, keyVars, parseVars, domVars>>

\* markDirty() called from outside, up to its call of _notifyDependents.
MarkDirtyCall(x) ==
  /\ callStack = <<>>
  /\ IF ~MarkedAlready(dirty, x)
     THEN /\ dirty' = [dirty EXCEPT ![x] = TRUE]
          /\ callStack' = StartNotify(x)
     ELSE UNCHANGED <<dirty, callStack>>
  /\ markCalls' = 1
  /\ calls' = <<>>
  /\ lastOp' = [op |-> "markDirty", var |-> x, val |-> ""]
  /\ UNCHANGED <<value, dependencies, dependents, listeners, lastComputed, now>>
  /\ UNCHANGED <<schedVars, engVars, tickVars, cacheVars, keyVars, parseVars, domVars>>

\* One turn of the forEach of the innermost _notifyDependents: it calls
\* markDirty on the next dependent, which either returns at once or marks the
\* dependent and enters its own _notifyDependents; or forEach is done and the
\* call returns.
NotifyDependentsStep ==
  /\ callStack # <<>>
  /\ markCalls < MaxMarkCalls
  /\ LET top == callStack[Len(callStack)]
         below == SubSeq(callStack, 1, Len(callStack) - 1)
     IN  IF top.todo = {}
         THEN /\ callStack' = below
              /\ UNCHANGED <<dirty, markCalls>>
         ELSE \E y \in top.todo :
                LET rest == Append(below, [top EXCEPT !.todo = @ \ {y}])
                IN  /\ markCalls' = markCalls + 1
                    /\ IF ~MarkedAlready(dirty, y)
                       THEN /\ dirty' = [dirty EXCEPT ![y] = TRUE]
                            /\ callStack' = rest \o StartNotify(y)
                       ELSE /\ callStack' = rest
                            /\ UNCHANGED dirty
  /\ calls' = <<>>
  /\ UNCHANGED lastOp
  /\ UNCHANGED <<value, dependencies, dependents, listeners, lastComputed, now>>
  /\ UNCHANGED <<schedVars, engVars, tickVars, cacheVars, keyVars, parseVars, domVars>>

PropInit ==
  /\ callStack = <<>>
  /\ markCalls = 0

InSeq(s, e) == \E i \in 1..Len(s) : s[i] = e
Without(s, e) == SelectSeq(s, LAMBDA z : z # e)

\* subscribe(callback): Set.add keeps the place of a callback already present.
Subscribe(x, cb) ==
  /\ listeners' = [listeners EXCEPT ![x] = IF InSeq(@, cb) THEN @ ELSE Append(@, cb)]
  /\ calls' = <<>>
  /\ lastOp' = NoOp
  /\ UNCHANGED <<value, dirty, dependencies, dependents, lastComputed, now>>
  /\ UNCHANGED <<schedVars, otherVars>>

\* The function subscribe returned: this._listeners.delete(callback).
Unsubscribe(x, cb) ==
  /\ listeners' = [listeners EXCEPT ![x] = Without(@, cb)]
  /\ calls' = <<>>
  /\ lastOp' = NoOp
  /\ UNCHANGED <<value, dirty, dependencies, dependents, lastComputed, now>>
  /\ UNCHANGED <<schedVars, otherVars>>

\* performance.now() moves on between two operations.
Tick ==
  /\ now < MaxClock
  /\ now' = now + 1
  /\ calls' = <<>>
  /\ lastOp' = NoOp
  /\ UNCHANGED <<value, dirty, dependencies, dependents, listeners, lastComputed>>
  /\ UNCHANGED <<schedVars, otherVars>>

\* Every variable as new FlowVariable(name) leaves it; the built-ins as
\* new FlowVariable(name, 0) leaves them at time 1.
VarInit ==
  /\ value = [x \in Names |-> IF x \in Builtins \cup EventBuiltins THEN Num(0) ELSE Undefined]
  /\ dirty = [x \in Names |-> x \notin Builtins \cup EventBuiltins]
  /\ dependencies = [x \in Names |-> {}]
  /\ dependents = [x \in Names |-> {}]
  /\ listeners = [x \in Names |-> <<>>]
  /\ lastComputed = [x \in Names |-> IF x \in Builtins \cup EventBuiltins THEN 1 ELSE 0]
  /\ now = 1
  /\ calls = <<>>
  /\ lastOp = NoOp

(***************************************************************************)
(* CacheManager                                                            *)
(***************************************************************************)
Keys == {"", "a", "b"}
CacheValues == {"v"}
NoRet == "none"

\* A Map as the sequence of its entries in iteration order.
MapHas(m, k) == \E i \in 1..Len(m) : m[i].key = k
MapGet(m, k) == m[CHOOSE i \in 1..Len(m) : m[i].key = k]
\* Map.set: a key already present keeps its place.
MapSet(m, k, e) ==
  IF MapHas(m, k)
  THEN [i \in 1..Len(m) |-> IF m[i].key = k THEN e ELSE m[i]]
  ELSE Append(m, e)
MapDelete(m, k) == SelectSeq(m, LAMBDA e : e.key # k)

\* A call as it is recorded: found tells whether _cache held the key when the
\* call was made, full whether _cache.size >= _maxSize then.
CacheCall(op, k, ttl) ==
  [op |-> op, key |-> k, ttl |-> ttl, found |-> MapHas(cache, k),
   full |-> Len(cache) >= maxSize]
NoCacheCall == CacheCall("none", "", 0)

\* The key _evictLRU settles on: the first key, in iteration order, with the
\* lowest counter; "" when there is no counter.
RECURSIVE LruScan(_, _, _, _)
LruScan(a, i, minAccess, lruKey) ==
  IF i > Len(a) THEN lruKey
  ELSE IF minAccess = -1 \/ a[i].count < minAccess
       THEN LruScan(a, i + 1, a[i].count, a[i].key)
       ELSE LruScan(a, i + 1, minAccess, lruKey)
lruKeyOf(a) == LruScan(a, 1, -1, "")     \* -1 stands for Infinity

\* if (lruKey): the empty string is falsy.
Truthy(k) == k # ""

EvictEntryOnly(c, a) ==
  [cache |-> MapDelete(c, lruKeyOf(a)), accessCount |-> a]
\* _evictLRU: the two maps after the call.
evictLRU(c, a) ==
  LET lruKey == lruKeyOf(a)
  IN  IF Truthy(lruKey)
      THEN [cache |-> MapDelete(c, lruKey), accessCount |-> MapDelete(a, lruKey)]
      ELSE [cache |-> c, accessCount |-> a]

ExpiredNever(e) == FALSE
\* An entry is expired when it has an expiration and the clock is past it
\* (expiresAt 0 stands for undefined).
Expired(e) == e.expiresAt # 0 /\ dateNow > e.expiresAt

\* set(key, value, ttlMs); ttl 0 stands for no ttlMs.
CacheSet(k, v, ttl) ==
  /\ LET m == IF Len(cache) >= maxSize
              THEN evictLRU(cache, accessCount)
              ELSE [cache |-> cache, accessCount |-> accessCount]
         entry == [key |-> k, value |-> v,
                   expiresAt |-> IF ttl # 0 THEN dateNow + ttl ELSE 0]
     IN  /\ cache' = MapSet(m.cache, k, entry)
         /\ accessCount' = MapSet(m.accessCount, k, [key |-> k, count |-> 1])
  /\ cacheRet' = NoRet
  /\ cacheOp' = CacheCall("set", k, ttl)
  /\ UNCHANGED maxSize
  /\ UNCHANGED <<schedVars, varVars, engVars, tickVars, pureVars>>

\* The maps and the value returned by get(key).
getResult(k) ==
  IF ~MapHas(cache, k)
  THEN [cache |-> cache, accessCount |-> accessCount, ret |-> Undefined]
  ELSE IF Expired(MapGet(cache, k))
  THEN [cache |-> MapDelete(cache, k), accessCount |-> MapDelete(accessCount, k),
        ret |-> Undefined]
  ELSE [cache |-> cache,
        accessCount |->
          MapSet(accessCount, k,
                 [key |-> k,
                  count |-> (IF MapHas(accessCount, k)
                             THEN MapGet(accessCount, k).count ELSE 0) + 1]),
        ret |-> MapGet(cache, k).value]

\* get(key)
CacheGet(k) ==
  /\ LET r == getResult(k)
     IN  /\ cache' = r.cache
         /\ accessCount' = r.accessCount
         /\ cacheRet' = r.ret
  /\ cacheOp' = CacheCall("get", k, 0)
  /\ UNCHANGED maxSize
  /\ UNCHANGED <<schedVars, varVars, engVars, tickVars, pureVars>>

\* has(key): this._cache.has(key) && this.get(key) !== undefined
CacheHas(k) ==
  /\ IF MapHas(cache, k)
     THEN LET r == getResult(k)
          IN  /\ cache' = r.cache
              /\ accessCount' = r.accessCount
              /\ cacheRet' = IF r.ret # Undefined THEN "true" ELSE "false"
     ELSE /\ cacheRet' = "false"
          /\ UNCHANGED <<cache, accessCount>>
  /\ cacheOp' = CacheCall("has", k, 0)
  /\ UNCHANGED maxSize
  /\ UNCHANGED <<schedVars, varVars, engVars, tickVars, pureVars>>

\* delete(key)
CacheDelete(k) ==
  /\ cache' = MapDelete(cache, k)
  /\ accessCount' = MapDelete(accessCount, k)
  /\ cacheRet' = NoRet
  /\ cacheOp' = CacheCall("delete", k, 0)
  /\ UNCHANGED maxSize
  /\ UNCHANGED <<schedVars, varVars, engVars, tickVars, pureVars>>

\* clear()
CacheClear ==
  /\ cache' = <<>>
  /\ accessCount' = <<>>
  /\ cacheRet' = NoRet
  /\ cacheOp' = CacheCall("clear", "", 0)
  /\ UNCHANGED maxSize
  /\ UNCHANGED <<schedVars, varVars, engVars, tickVars, pureVars>>

\* new CacheManager(n)
CacheInit(n) ==
  /\ cache = <<>>
  /\ accessCount = <<>>
  /\ maxSize = n
  /\ cacheRet = NoRet
  /\ cacheOp = NoCacheCall

(***************************************************************************)
(* CacheManager.generateKey.  A string is the sequence of its character    *)
(* codes; a value is tagged with its typeof.                               *)
(***************************************************************************)
Int32Max == 2147483647
Int32Min == -2147483647 - 1

\* a + b as a 32-bit integer.
AddWrap(a, b) ==
  IF a >= 0 /\ b >= 0
  THEN IF a > Int32Max - b
       THEN (a - Int32Max - 1) + (b - Int32Max - 1)
       ELSE a + b
  ELSE IF a < 0 /\ b < 0
  THEN IF a < Int32Min - b
       THEN (a + Int32Max + 1) + (b + Int32Max + 1)
       ELSE a + b
  ELSE a + b

\* a - b as a 32-bit integer.
SubWrap(a, b) ==
  IF b = Int32Min THEN AddWrap(AddWrap(a, Int32Max), 1) ELSE AddWrap(a, 0 - b)

\* hash << 5
RECURSIVE ShiftLeft(_, _)
ShiftLeft(h, n) == IF n = 0 THEN h ELSE ShiftLeft(AddWrap(h, h), n - 1)

\* The digits of n >= 0 in the given base, as character codes ('0' is 48, 'a' is 97).
RECURSIVE Digits(_, _)
Digits(n, base) ==
  LET d == n % base
      c == IF d < 10 THEN 48 + d ELSE 87 + d
  IN  IF n < base THEN <<c>> ELSE Append(Digits(n \div base, base), c)

\* Number.prototype.toString(base) on an integer: a minus sign ('-' is 45), then the digits.
NumToString(n, base) ==
  IF n >= 0 THEN Digits(n, base)
  ELSE IF n = Int32Min THEN <<45>> \o Append(Digits(Int32Max \div base + 1, base), 48)
  ELSE <<45>> \o Digits(0 - n, base)

\* _hashString: hash = ((hash << 5) - hash + char) & itself, then toString(16).
RECURSIVE HashFrom(_, _, _)
HashFrom(str, i, hash) ==
  IF i > Len(str) THEN hash
  ELSE HashFrom(str, i + 1, AddWrap(SubWrap(ShiftLeft(hash, 5), hash), str[i]))
hashString(str) == NumToString(HashFrom(str, 1, 0), 16)

\* _hashValue on the supported value domain.
hashValue(v) ==
  CASE v.type = "string" -> hashString(v.s)
    [] v.type = "number" -> NumToString(v.n, 10)
    [] v.type = "boolean" -> IF v.b THEN <<49>> ELSE <<48>>

\* a.localeCompare(b) < 0 on names of lower-case letters: dictionary order.
RECURSIVE LocaleLess(_, _)
LocaleLess(a, b) ==
  IF a = <<>> THEN b # <<>>
  ELSE IF b = <<>> THEN FALSE
  ELSE IF Head(a) # Head(b) THEN Head(a) < Head(b)
  ELSE LocaleLess(Tail(a), Tail(b))

\* Array.prototype.sort with that comparison: a stable insertion sort gives
\* the one order a total comparison allows.
RECURSIVE InsertEntry(_, _), SortEntries(_)
InsertEntry(sorted, e) ==
  IF sorted = <<>> THEN <<e>>
  ELSE IF LocaleLess(e.key, Head(sorted).key) THEN <<e>> \o sorted
  ELSE <<Head(sorted)>> \o InsertEntry(Tail(sorted), e)
SortEntries(entries) ==
  IF entries = <<>> THEN <<>>
  ELSE InsertEntry(SortEntries(SubSeq(entries, 1, Len(entries) - 1)),
                   entries[Len(entries)])
Unsorted(entries) == entries
sortByKey(entries) == SortEntries(entries)

\* .map(([key, value]) => `${key}:${hash}`).join("|")  (':' is 58, '|' is 124)
RECURSIVE JoinEntries(_)
JoinEntries(entries) ==
  IF entries = <<>> THEN <<>>
  ELSE LET e == Head(entries)
           part == e.key \o <<58>> \o hashValue(e.value)
       IN  IF Len(entries) = 1 THEN part
           ELSE part \o <<124>> \o JoinEntries(Tail(entries))

\* generateKey(expression, dependencies), the mapping given as Object.entries
\* lists it  ('#' is 35).
generateKey(expression, deps) ==
  LET depString == JoinEntries(sortByKey(deps))
  IN  hashString(expression) \o <<35>> \o hashString(depString)

\* The caller makes its next generateKey call.
GenerateKey ==
  /\ keyPending # <<>>
  /\ LET in == Head(keyPending)
     IN  keyCalls' = Append(keyCalls,
                            [expression |-> in.expression,
                             dependencies |-> in.dependencies,
                             key |-> generateKey(in.expression, in.dependencies)])
  /\ keyPending' = Tail(keyPending)
  /\ UNCHANGED <<schedVars, varVars, engVars, tickVars, cacheVars, parseVars, propVars, domVars>>

\* No generateKey call was made yet; those in p are to come.
KeyInit(p) ==
  /\ keyPending = p
  /\ keyCalls = <<>>

(***************************************************************************)
(* FlowParser.  A source, and a token, is the sequence of its characters.  *)
(***************************************************************************)
Lower == {"a", "b", "c", "d", "e", "f", "g", "h", "i", "j", "k", "l", "m",
          "n", "o", "p", "q", "r", "s", "t", "u", "v", "w", "x", "y", "z"}
Upper == {"A", "B", "C", "D", "E", "F", "G", "H", "I", "J", "K", "L", "M",
          "N", "O", "P", "Q", "R", "S", "T", "U", "V", "W", "X", "Y", "Z"}
DigitChars == <<"0", "1", "2", "3", "4", "5", "6", "7", "8", "9">>
IsDigit(ch) == \E i \in 1..10 : DigitChars[i] = ch
IsWordChar(ch) == ch \in Lower \cup Upper \cup {"_"} \/ IsDigit(ch)   \* \w
IsSpace(ch) == ch = " "                                               \* \s
IsPunct(ch) == ch \in {"+", "-", "*", "/", "^", "(", ")", "=", "<", ">", "!"}

\* _functions
FunctionNames ==
  { <<"s", "i", "n">>, <<"c", "o", "s">>, <<"t", "a", "n">>,
    <<"s", "q", "r", "t">>, <<"a", "b", "s">>, <<"f", "l", "o", "o", "r">>,
    <<"c", "e", "i", "l">>, <<"r", "o", "u", "n", "d">>, <<"m", "i", "n">>,
    <<"m", "a", "x">>, <<"c", "l", "a", "m", "p">>, <<"l", "e", "r", "p">>,
    <<"a", "t", "a", "n", "2">>, <<"p", "o", "w">>, <<"e", "x", "p">>,
    <<"l", "o", "g">> }

\* _operators: the precedence of an operator token.
IsOperator(token) ==
  token \in {<<"+">>, <<"-">>, <<"*">>, <<"/">>, <<"^">>, <<"=">>}
Precedence(token) ==
  CASE token \in {<<"+">>, <<"-">>} -> 1
    [] token \in {<<"*">>, <<"/">>} -> 2
    [] token = <<"^">> -> 3
    [] token = <<"=">> -> 0
Infinity == 1000

\* String.prototype.trim
RECURSIVE TrimLeft(_), TrimRight(_)
TrimLeft(str) ==
  IF str # <<>> /\ IsSpace(Head(str)) THEN TrimLeft(Tail(str)) ELSE str
TrimRight(str) ==
  IF str # <<>> /\ IsSpace(str[Len(str)])
  THEN TrimRight(SubSeq(str, 1, Len(str) - 1)) ELSE str
trim(str) == TrimRight(TrimLeft(str))

\* _tokenize: the loop over the characters, then the last token.
Push(tokens, current) == IF current # <<>> THEN Append(tokens, current) ELSE tokens
RECURSIVE Scan(_, _, _, _)
Scan(expr, i, current, tokens) ==
  IF i > Len(expr) THEN Push(tokens, current)
  ELSE LET char == expr[i]
       IN  IF IsSpace(char) THEN Scan(expr, i + 1, <<>>, Push(tokens, current))
           ELSE IF IsPunct(char)
           THEN Scan(expr, i + 1, <<>>, Append(Push(tokens, current), <<char>>))
           ELSE Scan(expr, i + 1, Append(current, char), tokens)
tokenize(expr) == Scan(expr, 1, <<>>, <<>>)

\* /^[a-zA-Z_][a-zA-Z0-9_]*$/
IsIdentifier(token) ==
  /\ token # <<>>
  /\ token[1] \in Lower \cup Upper \cup {"_"}
  /\ \A i \in 2..Len(token) : IsWordChar(token[i])

\* /^\d+\.?\d*$/
IsNumber(token) ==
  \E k \in 1..Len(token) :
    /\ \A i \in 1..k : IsDigit(token[i])
    /\ \/ k = Len(token)
       \/ /\ token[k + 1] = "."
          /\ \A i \in (k + 2)..Len(token) : IsDigit(token[i])

\* parseFloat on a token of digits (the sources hold no decimal point).
DigitValue(ch) == (CHOOSE i \in 1..10 : DigitChars[i] = ch) - 1
RECURSIVE parseFloat(_)
parseFloat(token) ==
  IF token = <<>> \/ ~IsDigit(token[Len(token)]) THEN 0
  ELSE 10 * parseFloat(SubSeq(token, 1, Len(token) - 1)) + DigitValue(token[Len(token)])

\* _extractDependencies: identifier-shaped tokens that are no function name,
\* each once, in first-seen order.
InList(list, e) == \E i \in 1..Len(list) : list[i] = e
RECURSIVE Collect(_, _, _)
Collect(tokens, i, variables) ==
  IF i > Len(tokens) THEN variables
  ELSE LET token == tokens[i]
       IN  IF IsIdentifier(token) /\ token \notin FunctionNames
              /\ ~InList(variables, token)
           THEN Collect(tokens, i + 1, Append(variables, token))
           ELSE Collect(tokens, i + 1, variables)
extractDependencies(expr) == Collect(tokenize(expr), 1, <<>>)

\* _findMainOperator: the index (from 0, -1: none) of the main operator.
RECURSIVE MainOperatorFrom(_, _, _, _, _)
MainOperatorFrom(tokens, i, minPrecedence, operatorIndex, parenDepth) ==
  IF i < 0 THEN operatorIndex
  ELSE LET token == tokens[i + 1]
       IN  IF token = <<")">>
           THEN MainOperatorFrom(tokens, i - 1, minPrecedence, operatorIndex, parenDepth + 1)
           ELSE IF token = <<"(">>
           THEN MainOperatorFrom(tokens, i - 1, minPrecedence, operatorIndex, parenDepth - 1)
           ELSE IF parenDepth = 0 /\ IsOperator(token)
                   /\ Precedence(token) <= minPrecedence
           THEN MainOperatorFrom(tokens, i - 1, Precedence(token), i, parenDepth)
           ELSE MainOperatorFrom(tokens, i - 1, minPrecedence, operatorIndex, parenDepth)
findMainOperator(tokens) == MainOperatorFrom(tokens, Len(tokens) - 1, Infinity, -1, 0)

\* tokens.join(" ")
RECURSIVE JoinTokens(_)
JoinTokens(tokens) ==
  IF tokens = <<>> THEN <<>>
  ELSE IF Len(tokens) = 1 THEN tokens[1]
  ELSE tokens[1] \o <<" ">> \o JoinTokens(Tail(tokens))

\* _parseTokens and _parseArguments.  A number literal is the node
\* [type |-> "number"]; the other nodes are the objects the code builds.
RECURSIVE parseTokens(_), ArgumentsFrom(_, _, _, _, _)
parseTokens(tokens) ==
  IF Len(tokens) = 1
  THEN IF IsNumber(tokens[1])
       THEN [type |-> "number", value |-> parseFloat(tokens[1])]
       ELSE [type |-> "variable", name |-> tokens[1]]
  ELSE IF Len(tokens) >= 3 /\ tokens[2] = <<"(">> /\ tokens[1] \in FunctionNames
  THEN [type |-> "function", name |-> tokens[1],
        arguments |-> ArgumentsFrom(SubSeq(tokens, 3, Len(tokens) - 1), 1, <<>>, <<>>, 0)]
  ELSE LET operatorIndex == findMainOperator(tokens)
       IN  IF operatorIndex > 0
           THEN [type |-> "operation",
                 operator |-> tokens[operatorIndex + 1],
                 left |-> parseTokens(SubSeq(tokens, 1, operatorIndex)),
                 right |-> parseTokens(SubSeq(tokens, operatorIndex + 2, Len(tokens)))]
           ELSE [type |-> "literal", value |-> JoinTokens(tokens)]
ArgumentsFrom(tokens, i, args, current, parenDepth) ==
  IF i > Len(tokens)
  THEN IF Len(current) > 0 THEN Append(args, parseTokens(current)) ELSE args
  ELSE LET token == tokens[i]
       IN  IF token = <<",">> /\ parenDepth = 0
           THEN IF Len(current) > 0
                THEN ArgumentsFrom(tokens, i + 1, Append(args, parseTokens(current)), <<>>, parenDepth)
                ELSE ArgumentsFrom(tokens, i + 1, args, current, parenDepth)
           ELSE ArgumentsFrom(tokens, i + 1, args, Append(current, token),
                              IF token = <<"(">> THEN parenDepth + 1
                              ELSE IF token = <<")">> THEN parenDepth - 1
                              ELSE parenDepth)
parseArguments(tokens) == ArgumentsFrom(tokens, 1, <<>>, <<>>, 0)

\* _calculateComplexity
RECURSIVE calculateComplexity(_), SumComplexity(_)
calculateComplexity(ast) ==
  IF ast.type = "number" THEN 1
  ELSE IF ast.type = "function"
  THEN 1 + 5 + SumComplexity(ast.arguments)
  ELSE IF ast.type = "operation"
  THEN 1 + 2 + calculateComplexity(ast.left) + calculateComplexity(ast.right)
  ELSE 1
SumComplexity(args) ==
  IF args = <<>> THEN 0
  ELSE calculateComplexity(Head(args)) + SumComplexity(Tail(args))

\* _parseMathExpression
parseMathExpression(expr) ==
  LET ast == parseTokens(tokenize(expr))
  IN  [type |-> "operation",
       value |-> ast,
       dependencies |-> extractDependencies(expr),
       complexity |-> calculateComplexity(ast)]

\* String.prototype.includes, and the length of the white space run at i.
StartsAt(expr, s, word) ==
  /\ s >= 1
  /\ s + Len(word) - 1 <= Len(expr)
  /\ SubSeq(expr, s, s + Len(word) - 1) = word
includes(expr, word) == \E s \in 1..(Len(expr) + 1) : StartsAt(expr, s, word)
MinOf(S) == CHOOSE m \in S : \A n \in S : m <= n
MaxOf(S) == CHOOSE m \in S : \A n \in S : m >= n
SpaceRun(expr, i) ==
  LET stops == {k \in i..Len(expr) : ~IsSpace(expr[k])}
  IN  (IF stops = {} THEN Len(expr) + 1 ELSE MinOf(stops)) - i
WordRun(expr, i) ==
  LET stops == {k \in i..Len(expr) : ~IsWordChar(expr[k])}
  IN  (IF stops = {} THEN Len(expr) + 1 ELSE MinOf(stops)) - i

\* The regular expressions of the parser, matched as a backtracking matcher
\* does: an earlier choice is settled before a later one, a greedy \s* or \s+
\* prefers the longer run and a lazy (.+?) the shorter text.  A candidate is
\* <<length of the white space run, index of the last character of the group>>.
FirstChoice(C) ==
  CHOOSE c \in C : \A d \in C : c[1] > d[1] \/ (c[1] = d[1] /\ c[2] <= d[2])
NoMatch == <<>>                 \* match(...) returned null
Null == [type |-> "null"]       \* the value null

\* \s*(.+?)\s*<close> after the character at index open.
GroupThen(expr, open, close, least) ==
  { c \in (least..SpaceRun(expr, open + 1)) \X ((open + 1)..Len(expr)) :
      /\ c[2] >= open + 1 + c[1]
      /\ LET at == c[2] + 1 + SpaceRun(expr, c[2] + 1)
         IN  at <= Len(expr) /\ expr[at] = close }
CloseAfter(expr, c) == c[2] + 1 + SpaceRun(expr, c[2] + 1)

\* \s+(.+?)\s*{\s*(.+?)\s*} after the keyword whose last character is at
\* index last: the two groups.
BlockHeads(expr, last) ==
  { c \in GroupThen(expr, last, "{", 1) :
      GroupThen(expr, CloseAfter(expr, c), "}", 0) # {} }
BlockMatch(expr, last) ==
  LET head == FirstChoice(BlockHeads(expr, last))
      brace == CloseAfter(expr, head)
      body == FirstChoice(GroupThen(expr, brace, "}", 0))
  IN  << SubSeq(expr, last + 1 + head[1], head[2]),
         SubSeq(expr, brace + 1 + body[1], body[2]) >>

\* expr.match(/if\s+(.+?)\s*{\s*(.+?)\s*}/)
ifMatch(expr) ==
  LET starts == { s \in 1..Len(expr) :
                    StartsAt(expr, s, <<"i", "f">>) /\ BlockHeads(expr, s + 1) # {} }
  IN  IF starts = {} THEN NoMatch ELSE BlockMatch(expr, MinOf(starts) + 1)

\* expr.match(/(.+?)\s*\?\s*(.+?)\s*:\s*(.+)/)
TernaryHeads(expr) ==
  { c \in (1..Len(expr)) \X (1..Len(expr)) :
      /\ c[1] <= c[2]
      /\ LET mark == CloseAfter(expr, c)
         IN  /\ mark <= Len(expr)
             /\ expr[mark] = "?"
             /\ \E t \in GroupThen(expr, mark, ":", 0) : CloseAfter(expr, t) < Len(expr) }
ternaryMatch(expr) ==
  IF TernaryHeads(expr) = {} THEN NoMatch
  ELSE LET head == CHOOSE c \in TernaryHeads(expr) :
                     \A d \in TernaryHeads(expr) :
                       c[1] < d[1] \/ (c[1] = d[1] /\ c[2] <= d[2])
           mark == CloseAfter(expr, head)
           mid == FirstChoice({ t \in GroupThen(expr, mark, ":", 0) :
                                  CloseAfter(expr, t) < Len(expr) })
           colon == CloseAfter(expr, mid)
           skip == Min(SpaceRun(expr, colon + 1), Len(expr) - colon - 1)
       IN  << SubSeq(expr, head[1], head[2]),
              SubSeq(expr, mark + 1 + mid[1], mid[2]),
              SubSeq(expr, colon + 1 + skip, Len(expr)) >>

\* expr.match(/for\s+(\w+)\s+in\s+(.+?)\s*{\s*(.+?)\s*}/)
ForIn(expr, s) ==     \* index of the n of in, 0 when for\s+(\w+)\s+in fails at s
  LET name == s + 3 + SpaceRun(expr, s + 3)
      gap == name + WordRun(expr, name)
      in == gap + SpaceRun(expr, gap)
  IN  IF /\ StartsAt(expr, s, <<"f", "o", "r">>)
         /\ SpaceRun(expr, s + 3) >= 1
         /\ WordRun(expr, name) >= 1
         /\ SpaceRun(expr, gap) >= 1
         /\ StartsAt(expr, in, <<"i", "n">>)
      THEN in + 1 ELSE 0
forMatch(expr) ==
  LET starts == { s \in 1..Len(expr) :
                    ForIn(expr, s) # 0 /\ BlockHeads(expr, ForIn(expr, s)) # {} }
  IN  IF starts = {} THEN NoMatch
      ELSE LET s == MinOf(starts)
               name == s + 3 + SpaceRun(expr, s + 3)
           IN  << SubSeq(expr, name, name + WordRun(expr, name) - 1) >>
                 \o BlockMatch(expr, ForIn(expr, s))

\* _isAssignment: /^\s*\w+\s*=\s*.+/
isAssignment(expr) ==
  LET name == 1 + SpaceRun(expr, 1)
      after == name + WordRun(expr, name)
      equals == after + SpaceRun(expr, after)
  IN  /\ WordRun(expr, name) >= 1
      /\ equals < Len(expr)
      /\ expr[equals] = "="
\* _isConditional, _isLoop
isConditional(expr) ==
  includes(expr, <<"i", "f">>) /\ (includes(expr, <<"{">>) \/ includes(expr, <<"?">>))
isLoop(expr) == includes(expr, <<"f", "o", "r">>) /\ includes(expr, <<"{">>)

\* String.prototype.split
RECURSIVE SplitFrom(_, _, _, _, _)
SplitFrom(str, sep, i, current, parts) ==
  IF i > Len(str) THEN Append(parts, current)
  ELSE IF str[i] = sep THEN SplitFrom(str, sep, i + 1, <<>>, Append(parts, current))
  ELSE SplitFrom(str, sep, i + 1, Append(current, str[i]), parts)
split(str, sep) == SplitFrom(str, sep, 1, <<>>, <<>>)

\* _parseAssignment: the first two parts of the split are destructured.
valuePart(parts) == parts[2]
parseAssignment(expr) ==
  LET parts == split(expr, "=")
      variable == trim(parts[1])
      valueExpr == parseMathExpression(trim(valuePart(parts)))
  IN  [type |-> "variable",
       value |-> [variable |-> variable, expression |-> valueExpr],
       dependencies |-> valueExpr.dependencies,
       complexity |-> valueExpr.complexity + 1]

\* _parseConditional
parseConditional(expr) ==
  IF ifMatch(expr) # NoMatch
  THEN [type |-> "condition",
        value |-> [condition |-> parseMathExpression(ifMatch(expr)[1]),
                   trueBranch |-> parseMathExpression(ifMatch(expr)[2]),
                   falseBranch |-> Null],
        dependencies |-> extractDependencies(expr),
        complexity |-> 10]
  ELSE IF ternaryMatch(expr) # NoMatch
  THEN [type |-> "condition",
        value |-> [condition |-> parseMathExpression(ternaryMatch(expr)[1]),
                   trueBranch |-> parseMathExpression(ternaryMatch(expr)[2]),
                   falseBranch |-> parseMathExpression(ternaryMatch(expr)[3])],
        dependencies |-> extractDependencies(expr),
        complexity |-> 8]
  ELSE parseMathExpression(expr)

\* _parseLoop
parseLoop(expr) ==
  IF forMatch(expr) # NoMatch
  THEN [type |-> "loop",
        value |-> [variable |-> forMatch(expr)[1],
                   range |-> parseMathExpression(forMatch(expr)[2]),
                   body |-> parseMathExpression(forMatch(expr)[3])],
        dependencies |-> extractDependencies(expr),
        complexity |-> 50]
  ELSE parseMathExpression(expr)

\* parse
parse(expression) ==
  LET trimmed == trim(expression)
  IN  IF isAssignment(trimmed) THEN parseAssignment(trimmed)
      ELSE IF isConditional(trimmed) THEN parseConditional(trimmed)
      ELSE IF isLoop(trimmed) THEN parseLoop(trimmed)
      ELSE parseMathExpression(trimmed)

(***************************************************************************)
(* ExecutionEngine: the evaluator.  A value is a record with its type: a   *)
(* number (an integer, or a ratio when the quotient is none), a string,    *)
(* NaN, null, or an object (a node or an expression, kept as it is).       *)
(***************************************************************************)
JsNumber(n) == [type |-> "number", value |-> n]
JsString(chars) == [type |-> "string", value |-> chars]
JsNaN == [type |-> "NaN"]
IsNum(v) == v.type = "number"

\* Number.prototype.toString and the default Object.prototype.toString
RECURSIVE DecimalChars(_)
DecimalChars(n) ==
  IF n < 0 THEN <<"-">> \o DecimalChars(-n)
  ELSE IF n < 10 THEN <<DigitChars[n + 1]>>
  ELSE DecimalChars(n \div 10) \o <<DigitChars[(n % 10) + 1]>>
ObjectText ==
  <<"[", "o", "b", "j", "e", "c", "t", " ", "O", "b", "j", "e", "c", "t", "]">>
ToText(v) ==
  CASE v.type = "number" -> DecimalChars(v.value)
    [] v.type = "string" -> v.value
    [] OTHER -> ObjectText

\* The operators of JavaScript on these values: + concatenates unless both
\* operands are numbers, the others turn an object into NaN.
RECURSIVE Power(_, _)
Power(b, e) == IF e <= 0 THEN 1 ELSE b * Power(b, e - 1)
Quotient(l, r) ==
  IF l % r = 0 THEN JsNumber(l \div r) ELSE [type |-> "ratio", num |-> l, den |-> r]
JsPlus(l, r) ==
  IF IsNum(l) /\ IsNum(r) THEN JsNumber(l.value + r.value)
  ELSE JsString(ToText(l) \o ToText(r))
JsMinus(l, r) == IF IsNum(l) /\ IsNum(r) THEN JsNumber(l.value - r.value) ELSE JsNaN
JsTimes(l, r) == IF IsNum(l) /\ IsNum(r) THEN JsNumber(l.value * r.value) ELSE JsNaN
JsDivide(l, r) == IF IsNum(l) /\ IsNum(r) THEN Quotient(l.value, r.value) ELSE JsNaN
JsPow(l, r) == IF IsNum(l) /\ IsNum(r) THEN JsNumber(Power(l.value, r.value)) ELSE JsNaN
JsTruthy(v) ==
  CASE v.type = "number" -> v.value # 0
    [] v.type = "string" -> v.value # <<>>
    [] v.type \in {"NaN", "null"} -> FALSE
    [] OTHER -> TRUE

\* _evaluateOperation: operator, left and right are read off expression.value
\* and the operands are used as they are; a value without an operator, and
\* the operator =, take the default.
evaluateOperation(expression) ==
  LET v == expression.value
  IN  IF "operator" \notin DOMAIN v THEN JsNumber(0)
      ELSE CASE v.operator = <<"+">> -> JsPlus(v.left, v.right)
             [] v.operator = <<"-">> -> JsMinus(v.left, v.right)
             [] v.operator = <<"*">> -> JsTimes(v.left, v.right)
             [] v.operator = <<"/">> ->
                  IF IsNum(v.right) /\ v.right.value = 0 THEN JsNumber(0)
                  ELSE JsDivide(v.left, v.right)
             [] v.operator = <<"^">> -> JsPow(v.left, v.right)
             [] OTHER -> JsNumber(0)

\* _evaluateCondition
evaluateCondition(expression) ==
  LET v == expression.value
  IN  IF JsTruthy(v.condition) THEN v.trueBranch ELSE v.falseBranch

\* _evaluateExpression
evaluateExpression(expression) ==
  CASE expression.type = "variable" -> expression.value
    [] expression.type = "operation" -> evaluateOperation(expression)
    [] expression.type = "condition" -> evaluateCondition(expression)
    [] OTHER -> expression.value

\* A caller parses the source, then has the expression, or the value
\* expression of an assignment, evaluated.
NoParse == [type |-> "none"]
NoValue == [type |-> "none"]
Evaluable(expression) ==
  IF expression.type = "variable"
  THEN {expression, expression.value.expression} ELSE {expression}
Parse ==
  /\ parsed = NoParse
  /\ parsed' = parse(source)
  /\ UNCHANGED <<source, evaluated>>
  /\ UNCHANGED <<schedVars, varVars, engVars, tickVars, cacheVars, keyVars, propVars, domVars>>
Evaluate ==
  /\ parsed # NoParse
  /\ evaluated = NoValue
  /\ \E e \in Evaluable(parsed) :
       evaluated' = [expression |-> e, result |-> evaluateExpression(e)]
  /\ UNCHANGED <<source, parsed>>
  /\ UNCHANGED <<schedVars, varVars, engVars, tickVars, cacheVars, keyVars, propVars, domVars>>
ParseInit(src) ==
  /\ source = src
  /\ parsed = NoParse
  /\ evaluated = NoValue

(***************************************************************************)
(* FlowEngine                                                              *)
(***************************************************************************)
\* this._variables.has(name)
HasNever(name) == FALSE
Has(name) == registry[name] # 0

\* variable(name, initialValue): get-or-create.  The constructor leaves a
\* fresh variable and calls set(initialValue) unless it is undefined; a fresh
\* variable has no subscriber and no dependent to tell.
VariableBody(name, initialValue) ==
  /\ IF ~Has(name)
     THEN /\ registry' = [registry EXCEPT ![name] = nextInst]
          /\ nextInst' = nextInst + 1
          /\ value' = [value EXCEPT ![name] = initialValue]
          /\ dirty' = [dirty EXCEPT ![name] = (initialValue = Undefined)]
          /\ lastComputed' = [lastComputed EXCEPT ![name] =
                                 IF initialValue = Undefined THEN 0 ELSE now]
          /\ listeners' = [listeners EXCEPT ![name] = <<>>]
          /\ dependencies' = [dependencies EXCEPT ![name] = {}]
          /\ dependents' = [dependents EXCEPT ![name] = {}]
     ELSE UNCHANGED <<registry, nextInst, value, dirty, lastComputed,
                      listeners, dependencies, dependents>>
  /\ returned' = registry'[name]
  /\ calls' = <<>>
  /\ lastOp' = [op |-> "variable", var |-> name, val |-> initialValue]
  /\ UNCHANGED now

\* flow(expression): parse, get-or-create the result variable, schedule the
\* task `flow_${Date.now()}` (its id written as the clock value) at priority 1.
\* c is the complexity parse gave the expression.
Flow(c) ==
  /\ pc = "idle"
  /\ VariableBody(ResultName(dateNow), Undefined)
  /\ LET task == NewTask(dateNow, 1, c, FALSE)
     IN  /\ taskQueue' = schedule(taskQueue, task)
         /\ lastSched' = task.id
         /\ flows' = flows \cup {[task |-> task.id, result |-> ResultName(dateNow)]}
  /\ nextId' = nextId + 1
  /\ preloaded' = (preloaded /\ startOrder = <<>>)
  /\ lastPause' = NoPause
  /\ lastFail' = NoFail
  /\ notified' = NoNote
  /\ UNCHANGED <<cur, chunkIndex, pc, elapsed, startOrder, threw, failedNow, dateNow>>
  /\ UNCHANGED <<tickVars, cacheVars, pureVars>>

\* Date.now() moves on between two operations.
DateTick ==
  /\ dateNow < MaxDate
  /\ dateNow' = dateNow + 1
  /\ UNCHANGED <<registry, nextInst, returned, flows>>
  /\ UNCHANGED <<schedVars, varVars, tickVars, cacheVars, pureVars>>

\* set(newValue) applied to the variable state s (value, dirty, lastComputed
\* and the subscriber calls made so far).
setResult(s, x, v) ==
  IF ~StrictEq(s.value[x], v)
  THEN LET d1 == [s.dirty EXCEPT ![x] = FALSE]
       IN  [value |-> [s.value EXCEPT ![x] = v],
            dirty |-> IF Escapes(x) = {} THEN notifyDependents(d1, x) ELSE d1,
            lastComputed |-> [s.lastComputed EXCEPT ![x] = now],
            calls |-> s.calls \o notifyListeners(x, v, d1)]
  ELSE s

\* _updateContext: the context moves on and the built-ins time and frameCount
\* are set from it, their subscribers being called.
updateContext ==
  LET s0 == [value |-> value, dirty |-> dirty, lastComputed |-> lastComputed,
             calls |-> <<>>]
      s1 == setResult(s0, "time", Num(now))
  IN  setResult(s1, "frameCount", Num(frameCount + 1))

InTick == tickStack # <<>>
Top == tickStack[Len(tickStack)]
Pop == SubSeq(tickStack, 1, Len(tickStack) - 1)

\* Where start and stop can be called from: application code between two
\* ticks, or a subscriber of a built-in that _updateContext is calling.
Callable == IF InTick THEN Top.pos = "update" /\ Top.notifying ELSE TRUE

\* _tick up to the subscriber calls of _updateContext, _isRunning being true.
TickEnter ==
  /\ frameCount' = frameCount + 1
  /\ LET s == updateContext
     IN  /\ value' = s.value
         /\ dirty' = s.dirty
         /\ lastComputed' = s.lastComputed
         /\ calls' = s.calls
         /\ tickStack' = Append(tickStack,
                                [pos |-> "update", notifying |-> s.calls # <<>>])
  /\ lastOp' = NoOp
  /\ UNCHANGED <<dependencies, dependents, listeners, now>>

\* start()
EngStart ==
  /\ Callable
  /\ IF isRunning
     THEN UNCHANGED <<isRunning, frameCount, tickStack, varVars>>
     ELSE /\ isRunning' = TRUE
          /\ TickEnter
  /\ UNCHANGED <<animationFrame, pending, nextHandle>>
  /\ UNCHANGED <<schedVars, engVars, cacheVars, pureVars>>

\* stop(): cancelAnimationFrame of a handle the host no longer holds does nothing.
EngStop ==
  /\ Callable
  /\ isRunning' = FALSE
  /\ pending' = IF animationFrame # 0 THEN pending \ {animationFrame} ELSE pending
  /\ UNCHANGED <<animationFrame, nextHandle, frameCount, tickStack>>
  /\ UNCHANGED <<schedVars, varVars, engVars, cacheVars, pureVars>>

\* The host runs the tick callback h at an animation frame.
HostFrame(h) ==
  /\ ~InTick
  /\ h \in pending
  /\ pending' = pending \ {h}
  /\ IF isRunning
     THEN TickEnter
     ELSE UNCHANGED <<frameCount, tickStack, varVars>>
  /\ UNCHANGED <<isRunning, animationFrame, nextHandle>>
  /\ UNCHANGED <<schedVars, engVars, cacheVars, pureVars>>

\* _tick: the subscribers have returned, executeFrame(frameStart) is called.
TickExecuteFrame(lag) ==
  /\ InTick
  /\ Top.pos = "update"
  /\ ExecuteFrameBody(lag)
  /\ tickStack' = Append(Pop, [pos |-> "frame", notifying |-> FALSE])
  /\ UNCHANGED <<isRunning, animationFrame, pending, nextHandle, frameCount>>
  /\ UNCHANGED <<varVars, engVars, cacheVars, pureVars>>

(***************************************************************************)
(* DOMBridge                                                               *)
(***************************************************************************)
LowerChars == <<"a", "b", "c", "d", "e", "f", "g", "h", "i", "j", "k", "l", "m",
                "n", "o", "p", "q", "r", "s", "t", "u", "v", "w", "x", "y", "z">>
UpperChars == <<"A", "B", "C", "D", "E", "F", "G", "H", "I", "J", "K", "L", "M",
                "N", "O", "P", "Q", "R", "S", "T", "U", "V", "W", "X", "Y", "Z">>
toLowerCase(ch) ==
  IF ch \in Upper THEN LowerChars[CHOOSE i \in 1..26 : UpperChars[i] = ch] ELSE ch

\* A property name as its characters.
PropertyChars(p) ==
  CASE p = "fontSize" -> <<"f", "o", "n", "t", "S", "i", "z", "e">>
    [] p = "opacity"  -> <<"o", "p", "a", "c", "i", "t", "y">>

\* _toCSSProperty: property.replace(/([A-Z])/g, "-$1").toLowerCase()
RECURSIVE toCSSProperty(_)
toCSSProperty(chars) ==
  IF chars = <<>> THEN <<>>
  ELSE (IF Head(chars) \in Upper THEN <<"-", toLowerCase(Head(chars))>>
        ELSE <<toLowerCase(Head(chars))>>) \o toCSSProperty(Tail(chars))
CssProperties == {toCSSProperty(PropertyChars(p)) : p \in DomProperties}

\* _needsPixelUnit and _needsDegreeUnit (_needsPercentUnit returns false)
pixelProperties ==
  { <<"w", "i", "d", "t", "h">>, <<"h", "e", "i", "g", "h", "t">>,
    <<"t", "o", "p">>, <<"l", "e", "f", "t">>, <<"r", "i", "g", "h", "t">>,
    <<"b", "o", "t", "t", "o", "m">>, <<"m", "a", "r", "g", "i", "n">>,
    <<"m", "a", "r", "g", "i", "n", "-", "t", "o", "p">>,
    <<"m", "a", "r", "g", "i", "n", "-", "r", "i", "g", "h", "t">>,
    <<"m", "a", "r", "g", "i", "n", "-", "b", "o", "t", "t", "o", "m">>,
    <<"m", "a", "r", "g", "i", "n", "-", "l", "e", "f", "t">>,
    <<"p", "a", "d", "d", "i", "n", "g">>,
    <<"p", "a", "d", "d", "i", "n", "g", "-", "t", "o", "p">>,
    <<"p", "a", "d", "d", "i", "n", "g", "-", "r", "i", "g", "h", "t">>,
    <<"p", "a", "d", "d", "i", "n", "g", "-", "b", "o", "t", "t", "o", "m">>,
    <<"p", "a", "d", "d", "i", "n", "g", "-", "l", "e", "f", "t">>,
    <<"b", "o", "r", "d", "e", "r", "-", "w", "i", "d", "t", "h">>,
    <<"b", "o", "r", "d", "e", "r", "-", "r", "a", "d", "i", "u", "s">>,
    <<"f", "o", "n", "t", "-", "s", "i", "z", "e">>,
    <<"l", "i", "n", "e", "-", "h", "e", "i", "g", "h", "t">> }
degreeProperties ==
  { <<"r", "o", "t", "a", "t", "e">>, <<"r", "o", "t", "a", "t", "i", "o", "n">>,
    <<"h", "u", "e", "-", "r", "o", "t", "a", "t", "e">> }
needsPixelUnit(p) ==
  \E prop \in pixelProperties : includes(toCSSProperty(PropertyChars(p)), prop)
needsDegreeUnit(p) ==
  \E prop \in degreeProperties : includes(toCSSProperty(PropertyChars(p)), prop)

\* typeof of a value of the model: values are written as JavaScript prints
\* them, the numbers being NaN and the decimal numerals.
NumberValues == {NaN} \cup {Num(n) : n \in 0..9}
BooleanValues == {"true", "false"}

\* _toCSSValue(property, value)
toCSSValue(p, v) ==
  IF v \in NumberValues
  THEN (IF needsPixelUnit(p) THEN v \o "px"
        ELSE IF needsDegreeUnit(p) THEN v \o "deg"
        ELSE v)
  ELSE IF v \in BooleanValues THEN (IF v = "true" THEN "1" ELSE "0")
  ELSE v

\* _applyStyle: element.style.setProperty(cssProperty, cssValue)
applyStyle(style, app) ==
  [style EXCEPT ![app.element][toCSSProperty(PropertyChars(app.property))] =
     toCSSValue(app.property, app.value)]
RECURSIVE ApplyAll(_, _, _)
ApplyAll(style, apps, i) ==
  IF i > Len(apps) THEN style
  ELSE ApplyAll(applyStyle(style, apps[i]), apps, i + 1)

\* flush(): every pending application is applied in order, then the list is emptied.
FlushBody ==
  /\ elementStyle' = ApplyAll(elementStyle, pendingApplications, 1)
  /\ pendingApplications' = <<>>
Flush ==
  /\ FlushBody
  /\ calls' = <<>>
  /\ lastOp' = [op |-> "flush", var |-> "", val |-> ""]
  /\ UNCHANGED <<value, dirty, dependencies, dependents, listeners, lastComputed, now>>
  /\ UNCHANGED <<schedVars, engVars, tickVars, cacheVars, keyVars, parseVars, propVars>>

\* The closures of the bridge subscribed so far.
Bindings ==
  {t \in BridgeTargets :
     \E x \in Names : InSeq(listeners[x], BridgeName(t[1], t[2], t[3]))}
NextBinding == Cardinality(Bindings) + 1

\* engine.style(element, {p: x}) with x a FlowVariable: apply subscribes a new
\* closure to x and schedules nothing.
Style(el, p, x) ==
  /\ NextBinding <= MaxBindings
  /\ listeners' = [listeners EXCEPT ![x] = Append(@, BridgeName(el, p, NextBinding))]
  /\ calls' = <<>>
  /\ lastOp' = [op |-> "style", var |-> x, val |-> BridgeName(el, p, NextBinding)]
  /\ UNCHANGED <<value, dirty, dependencies, dependents, lastComputed, now>>
  /\ UNCHANGED <<schedVars, otherVars>>

\* engine.style(element, {p: v}) with v a plain value: scheduled at once.
StyleStatic(el, p, v) ==
  /\ pendingApplications' = scheduleApplication(pendingApplications, el, p, v)
  /\ calls' = <<>>
  /\ lastOp' = [op |-> "static", var |-> PairName(el, p), val |-> v]
  /\ UNCHANGED <<value, dirty, dependencies, dependents, listeners, lastComputed, now>>
  /\ UNCHANGED <<schedVars, engVars, tickVars, cacheVars, keyVars, parseVars,
                 propVars, elementStyle>>

\* Before any style call: nothing pending, no property set on any element.
Unset == ""
DomInit ==
  /\ pendingApplications = <<>>
  /\ elementStyle = [el \in Elements |-> [c \in CssProperties |-> Unset]]

\* _tick: executeFrame has returned; flush the DOM bridge and ask the host
\* for the next frame.
TickEnd ==
  /\ InTick
  /\ Top.pos = "frame"
  /\ pc = "idle"
  /\ animationFrame' = nextHandle
  /\ pending' = pending \cup {nextHandle}
  /\ nextHandle' = nextHandle + 1
  /\ tickStack' = Pop
  /\ FlushBody
  /\ UNCHANGED <<isRunning, frameCount>>
  /\ UNCHANGED <<schedVars, varVars, engVars, cacheVars, keyVars, parseVars, propVars>>

\* engine.variable(name, initialValue) called by application code.
EngVariable(name, initialValue) ==
  /\ VariableBody(name, initialValue)
  /\ UNCHANGED <<dateNow, flows>>
  /\ UNCHANGED <<schedVars, tickVars, cacheVars, pureVars>>

\* engine.dispose(): stop, dispose every variable held, clear the map, dispose
\* the scheduler.
EngineDispose ==
  /\ ~InTick
  /\ pc = "idle"
  /\ isRunning' = FALSE
  /\ pending' = IF animationFrame # 0 THEN pending \ {animationFrame} ELSE pending
  /\ listeners' = [x \in Names |-> IF Has(x) THEN <<>> ELSE listeners[x]]
  /\ dependencies' = [x \in Names |-> IF Has(x) THEN {} ELSE dependencies[x]]
  /\ dependents' = [x \in Names |-> IF Has(x) THEN {} ELSE dependents[x]]
  /\ registry' = [x \in Names |-> 0]
  /\ taskQueue' = <<>>
  /\ calls' = <<>>
  /\ lastOp' = [op |-> "dispose", var |-> "", val |-> ""]
  /\ UNCHANGED <<value, dirty, lastComputed, now>>
  /\ UNCHANGED <<cur, chunkIndex, pc, elapsed, nextId, startOrder, preloaded,
                 lastSched, lastPause, threw, lastFail, notified,
                 failedNow>>
  /\ cache' = <<>>
  /\ accessCount' = <<>>
  /\ cacheRet' = NoRet
  /\ UNCHANGED <<maxSize, cacheOp, pureVars>>
  /\ UNCHANGED <<nextInst, returned, dateNow, flows>>
  /\ UNCHANGED <<animationFrame, nextHandle, frameCount, tickStack>>

\* this.variable(name).set(v) inside an event listener, on the engine state
\* s (the map, the instance counter and the variable state): the variable is
\* created when the map does not hold the name, then set.
variableSet(s, name, v) ==
  LET s1 == IF s.registry[name] = 0
            THEN [s EXCEPT !.registry[name] = s.nextInst,
                           !.nextInst = s.nextInst + 1,
                           !.value[name] = Undefined,
                           !.dirty[name] = TRUE,
                           !.lastComputed[name] = 0]
            ELSE s
      r == setResult([value |-> s1.value, dirty |-> s1.dirty,
                      lastComputed |-> s1.lastComputed, calls |-> s1.calls],
                     name, v)
  IN  [registry |-> s1.registry, nextInst |-> s1.nextInst, value |-> r.value,
       dirty |-> r.dirty, lastComputed |-> r.lastComputed, calls |-> r.calls]

\* The listener _setupEventListeners registered on the document (mousemove)
\* or the window (resize), run by the host: it writes the two built-ins of
\* the event.  The listeners stay registered for as long as the page lives.
HostEvent(names, v1, v2) ==
  /\ ~InTick
  /\ pc = "idle"
  /\ LET s0 == [registry |-> registry, nextInst |-> nextInst, value |-> value,
                dirty |-> dirty, lastComputed |-> lastComputed, calls |-> <<>>]
         s2 == variableSet(variableSet(s0, names[1], v1), names[2], v2)
     IN  /\ registry' = s2.registry
         /\ nextInst' = s2.nextInst
         /\ value' = s2.value
         /\ dirty' = s2.dirty
         /\ lastComputed' = s2.lastComputed
         /\ calls' = s2.calls
  /\ lastOp' = [op |-> "event", var |-> names[1], val |-> v1]
  /\ UNCHANGED <<dependencies, dependents, listeners, now>>
  /\ UNCHANGED <<returned, dateNow, flows>>
  /\ UNCHANGED <<schedVars, tickVars, cacheVars, pureVars>>
MouseMove(x, y) == HostEvent(MouseNames, x, y)
Resize(w, h) == HostEvent(ViewportNames, w, h)

\* new FlowEngine(): the built-ins the model follows are registered, in the
\* order _setupBuiltinVariables creates them.
EngInit ==
  /\ registry = [x \in Names |-> CASE x = "time" -> 1
                                   [] x = "frameCount" -> 2
                                   [] x = "viewportWidth" -> 3
                                   [] x = "viewportHeight" -> 4
                                   [] x = "mouseX" -> 5
                                   [] x = "mouseY" -> 6
                                   [] OTHER -> 0]
  /\ nextInst = 7
  /\ returned = 0
  /\ dateNow = 1
  /\ flows = {}
  /\ isRunning = FALSE
  /\ animationFrame = 0
  /\ pending = {}
  /\ nextHandle = 1
  /\ frameCount = 0
  /\ tickStack = <<>>

(***************************************************************************)
(* Specifications                                                          *)
(***************************************************************************)
Init ==
  /\ SchedInit /\ VarInit /\ EngInit /\ CacheInit(MaxCacheSize)
  /\ KeyInit(<<>>) /\ ParseInit(<<>>) /\ PropInit /\ DomInit

Next ==
  \/ \E p \in Priorities, c \in Complexities :
       nextId <= MaxTasks /\ Schedule(p, c, FALSE)
  \/ \E lag \in 0..MaxLag : ExecuteFrame(lag)
  \/ FrameLoop
  \/ \E d \in 0..MaxDur : ExecuteSimpleTask(d)
  \/ \E d \in 0..MaxDur : ChunkLoop(d)
  \/ Reschedule

Spec == Init /\ [][Next]_vars

\* The scheduler with tasks whose expression makes the evaluator throw.
FaultNext ==
  \/ \E p \in Priorities, c \in Complexities, th \in BOOLEAN :
       nextId <= MaxFaultTasks /\ Schedule(p, c, th)
  \/ \E lag \in 0..MaxLag : ExecuteFrame(lag)
  \/ FrameLoop
  \/ \E d \in 0..MaxDur : ExecuteSimpleTask(d)
  \/ \E d \in 0..MaxDur : ChunkLoop(d)
  \/ Reschedule

FaultSpec == Init /\ [][FaultNext]_vars

\* The scheduler with throwing tasks, where a call of executeFrame that has
\* begun runs on: the loop, the evaluations and the resubmission are always
\* taken in the end.  An evaluation may take 0 ms (the clock read is the
\* same before and after).
InFrame ==
  \/ FrameLoop
  \/ \E d \in 0..MaxDur : ExecuteSimpleTask(d)
  \/ \E d \in 0..MaxDur : ChunkLoop(d)
  \/ Reschedule
FaultLiveSpec == Init /\ [][FaultNext]_vars /\ WF_vars(InFrame)

\* Every evaluation takes the chunk's own estimate; tasks do not throw; the
\* host keeps calling executeFrame (requestAnimationFrame re-arms each tick).
LiveNext ==
  \/ \E p \in Priorities, c \in Complexities :
       nextId <= MaxTasks /\ Schedule(p, c, FALSE)
  \/ \E lag \in 0..MaxLag : ExecuteFrame(lag)
  \/ FrameLoop
  \/ ExecuteSimpleTask(estimatedMs)
  \/ ChunkLoop(estimatedMs)
  \/ Reschedule

LiveSpec == Init /\ [][LiveNext]_vars /\ WF_vars(LiveNext)

\* flow(...) calls against a scheduler whose host keeps running frames, every
\* evaluation taking the chunk's own estimate.
FrameSteps ==
  \/ \E lag \in 0..MaxLag : ExecuteFrame(lag)
  \/ FrameLoop
  \/ ExecuteSimpleTask(estimatedMs)
  \/ ChunkLoop(estimatedMs)
  \/ Reschedule

FlowNext ==
  \/ \E c \in Complexities : nextId <= MaxFlows /\ Flow(c)
  \/ DateTick
  \/ FrameSteps

FlowSpec == Init /\ [][FlowNext]_vars /\ WF_vars(FrameSteps)

\* An engine driven by start, stop and the host's animation frames; the
\* built-ins have subscribers, which may call start and stop.
TickNext ==
  \/ frameCount < MaxFrames /\ Len(tickStack) < MaxDepth /\ EngStart
  \/ EngStop
  \/ \E h \in pending : frameCount < MaxFrames /\ HostFrame(h)
  \/ \E lag \in 0..MaxLag : TickExecuteFrame(lag)
  \/ FrameLoop
  \/ TickEnd
  \/ \E x \in Builtins : Subscribe(x, "f")
  \/ Tick

TickSpec == Init /\ [][TickNext]_vars

MaxEdges == 2             \* dependency edges a run holds at a time
GraphValues == {Undefined, "1"}
Edges == {<<x, y>> \in Vars \X Vars : y \in dependencies[x] \/ x \in dependents[y]}

GraphNext ==
  \/ \E x \in Vars, v \in GraphValues : Set(x, v)
  \/ \E x \in Vars : MarkDirty(x)
  \/ \E x \in Vars, y \in Vars :
       Cardinality(Edges \cup {<<x, y>>}) <= MaxEdges /\ AddDependency(x, y)
  \/ \E x \in Vars, y \in Vars : RemoveDependency(x, y)
  \/ \E x \in Vars : Dispose(x)

GraphSpec == Init /\ [][GraphNext]_vars

\* Two variables whose dependency edges a caller adds and removes, self
\* edges and the cycle between the two included; set and markDirty
\* propagate call by call, the engine running a call in hand to its end.
PropVars == {"a", "b"}

PropNext ==
  \/ \E x \in PropVars, v \in GraphValues : SetCall(x, v)
  \/ \E x \in PropVars : MarkDirtyCall(x)
  \/ NotifyDependentsStep
  \/ \E x \in PropVars, y \in PropVars : callStack = <<>> /\ AddDependency(x, y)
  \/ \E x \in PropVars, y \in PropVars : callStack = <<>> /\ RemoveDependency(x, y)

PropSpec == Init /\ [][PropNext]_vars /\ WF_vars(NotifyDependentsStep)

SubVars == {"a", "b"}
SubValues == {Undefined, NaN, "1"}

SubFns == {Fn(TRUE, Undefined)} \cup {Fn(FALSE, v) : v \in SubValues}

SubNext ==
  \/ \E x \in SubVars, v \in SubValues : Set(x, v)
  \/ \E x \in SubVars, fn \in SubFns : Compute(x, fn)
  \/ \E cb \in Callbacks : Subscribe("a", cb)
  \/ \E cb \in Callbacks : Unsubscribe("a", cb)
  \/ AddDependency("b", "a")
  \/ RemoveDependency("b", "a")
  \/ \E x \in SubVars : Dispose(x)
  \/ Tick

SubSpec == Init /\ [][SubNext]_vars

\* One variable bound to style properties of two elements, next to plain values.
DomPairs == {<<"e1", "fontSize">>, <<"e1", "opacity">>, <<"e2", "fontSize">>}
DomValues == {Undefined, Num(1)}
DomStatics == {"true"}

DomNext ==
  \/ \E t \in DomPairs : Style(t[1], t[2], "a")
  \/ \E t \in DomPairs, v \in DomStatics : StyleStatic(t[1], t[2], v)
  \/ \E v \in DomValues : Set("a", v)
  \/ Flush

DomSpec == Init /\ [][DomNext]_vars

\* One variable with a dependent, its subscribers taken from a plain callback
\* and one that sets the variable again while it is being notified.
ReentryCallbacks == {"f", "r"}
ReentryValues == {Undefined, "1", EchoValue}

ReentryNext ==
  \/ \E v \in ReentryValues : SetReentrant("a", v)
  \/ \E cb \in ReentryCallbacks : Subscribe("a", cb)
  \/ \E cb \in ReentryCallbacks : Unsubscribe("a", cb)
  \/ AddDependency("b", "a")
  \/ \E v \in ReentryValues : Set("b", v)
  \/ Tick

ReentrySpec == Init /\ [][ReentryNext]_vars

\* One engine's variable map: a user variable and a built-in, looked up and
\* created by name, set and subscribed to through the instances returned.
RegNames == {"a", "time"}

RegistryNext ==
  \/ \E x \in RegNames, v \in SubValues :
       (Has(x) \/ nextInst <= MaxInstances) /\ EngVariable(x, v)
  \/ \E x \in RegNames, v \in SubValues : Has(x) /\ Set(x, v)
  \/ \E x \in RegNames, cb \in Callbacks : Has(x) /\ Subscribe(x, cb)
  \/ EngineDispose
  \/ Tick

RegistrySpec == Init /\ [][RegistryNext]_vars

\* An engine with its frames and the host's mouse and resize events, which
\* application code starts, stops and disposes of.
EventValues == {Num(0), Num(1)}
CanCreate(names) ==
  (Has(names[1]) /\ Has(names[2])) \/ nextInst + 1 <= MaxInstances

EventNext ==
  \/ frameCount < MaxFrames /\ Len(tickStack) < MaxDepth /\ EngStart
  \/ EngStop
  \/ \E h \in pending : frameCount < MaxFrames /\ HostFrame(h)
  \/ \E lag \in 0..MaxLag : TickExecuteFrame(lag)
  \/ FrameLoop
  \/ TickEnd
  \/ EngineDispose
  \/ \E x, y \in EventValues : CanCreate(MouseNames) /\ MouseMove(x, y)
  \/ \E w, h \in EventValues : CanCreate(ViewportNames) /\ Resize(w, h)

EventSpec == Init /\ [][EventNext]_vars

\* A cache built with any maxSize from 1 up, driven by its five operations
\* while the clock moves.
CountOf(k) == IF MapHas(accessCount, k) THEN MapGet(accessCount, k).count ELSE 0

\* Date.now() moves on while the cache is in use, until an entry set at the
\* start with the largest ttlMs has lapsed.
CacheDateTick ==
  /\ dateNow < MaxTtl + 2
  /\ dateNow' = dateNow + 1
  /\ UNCHANGED <<registry, nextInst, returned, flows>>
  /\ UNCHANGED <<schedVars, varVars, tickVars, cacheVars, pureVars>>

CacheSpecInit ==
  /\ SchedInit /\ VarInit /\ EngInit
  /\ \E n \in 1..MaxCacheSize : CacheInit(n)
  /\ KeyInit(<<>>)
  /\ ParseInit(<<>>)
  /\ PropInit /\ DomInit

\* set is called without ttlMs (0) or with the largest one.
Ttls == {0, MaxTtl}

CacheNext ==
  \/ \E k \in Keys, v \in CacheValues, ttl \in Ttls : CacheSet(k, v, ttl)
  \/ \E k \in Keys : CountOf(k) < MaxAccess /\ CacheGet(k)
  \/ \E k \in Keys : CountOf(k) < MaxAccess /\ CacheHas(k)
  \/ \E k \in Keys : CacheDelete(k)
  \/ CacheClear
  \/ CacheDateTick

CacheSpec == CacheSpecInit /\ [][CacheNext]_vars

\* Two generateKey calls, over two expressions ("a+b", "a*b") and every
\* mapping of up to two of the names a, ab to numbers, booleans and strings.
KeyExpressions == {<<97, 43, 98>>, <<97, 42, 98>>}
KeyNames == {<<97>>, <<97, 98>>}
NumberValue(n) == [type |-> "number", n |-> n, b |-> FALSE, s |-> <<>>]
BooleanValue(b) == [type |-> "boolean", n |-> 0, b |-> b, s |-> <<>>]
StringValue(s) == [type |-> "string", n |-> 0, b |-> FALSE, s |-> s]
MaxNumber == 1           \* largest number a dependency holds
KeyValues ==
  {NumberValue(n) : n \in 0..MaxNumber}
    \cup {BooleanValue(b) : b \in BOOLEAN}
    \cup {StringValue(s) : s \in {<<49>>}}
KeyEntries == [key : KeyNames, value : KeyValues]
KeyMappings ==
  {<<>>} \cup {<<e>> : e \in KeyEntries}
         \cup {p \in KeyEntries \X KeyEntries : p[1].key # p[2].key}

KeyInputs == [expression : KeyExpressions, dependencies : KeyMappings]

KeySpecInit ==
  /\ SchedInit /\ VarInit /\ EngInit /\ CacheInit(MaxCacheSize)
  /\ \E p \in KeyInputs \X KeyInputs : KeyInit(p)
  /\ ParseInit(<<>>)
  /\ PropInit /\ DomInit

KeyNext == GenerateKey

KeySpec == KeySpecInit /\ [][KeyNext]_vars

\* The parser and the evaluator on sources drawn at the start: every string
\* of at most MaxLexemes lexemes, and the sample sources.
MaxLexemes == 2
ParseLexemes ==
  { <<"a">>, <<"b">>, <<"2">>, <<"3">>, <<" ">>, <<"+">>, <<"*">>, <<"-">>,
    <<"=">>, <<"(">>, <<")">>, <<",">> }
RECURSIVE LexemeStrings(_)
LexemeStrings(n) ==
  IF n = 0 THEN {<<>>}
  ELSE LET S == LexemeStrings(n - 1)
       IN  S \cup {s \o l : s \in S, l \in ParseLexemes}
ParseSamples ==
  { <<"m", "i", "n", "(", "a", ",", " ", "b", ")">>,                   \* min(a, b)
    <<"m", "i", "n", "(", "a", " ", ",", " ", "b", ")">>,              \* min(a , b)
    <<"i", "f", " ", "a", " ", "{", " ", "b", " ", "}">>,              \* if a { b }
    <<"f", "o", "r", " ", "i", " ", "i", "n", " ", "a", " ", "{", " ", "b", " ", "}">>,
                                                                       \* for i in a { b }
    <<"s", "i", "n", "(", "a", ")", " ", "+", " ", "b", " ", "*", " ", "a">>,
                                                                       \* sin(a) + b * a
    <<"x", " ", "=", " ", "2", " ", "+", " ", "3", " ", "*", " ", "4">>,
                                                                       \* x = 2 + 3 * 4
    <<"x", " ", "=", " ", "2", " ", "+", " ", "3">>,                   \* x = 2 + 3
    <<"2", " ", "*", " ", "3", " ", "+", " ", "4">>,                   \* 2 * 3 + 4
    <<"a", " ", "-", " ", "b", " ", "-", " ", "c">>,                   \* a - b - c
    <<"a", " ", ">", " ", "b", " ", "?", " ", "1", " ", ":", " ", "0">>,
                                                                       \* a > b ? 1 : 0
    <<"i", "f", "a", " ", "?", " ", "b", " ", ":", " ", "c">>,         \* ifa ? b : c
    <<"a", " ", "=", " ", "b", " ", "=", " ", "c">>,                   \* a = b = c
    <<"i", "f", " ", "0", " ", "{", " ", "b", " ", "}">>,              \* if 0 { b }
    <<"i", "f", " ", "a", " ", "+", " ", "b", " ", "+", " ", "c", " ", "+", " ", "d", " ",
      "{", " ", "b", " ", "}">>,                                       \* if a + b + c + d { b }
    <<" ", "a", " ", "+", " ", "a", " ">> }                            \*  a + a
ParseSources == LexemeStrings(MaxLexemes) \cup ParseSamples

ParseSpecInit ==
  /\ SchedInit /\ VarInit /\ EngInit /\ CacheInit(MaxCacheSize)
  /\ KeyInit(<<>>)
  /\ \E src \in ParseSources : ParseInit(src)
  /\ PropInit /\ DomInit

ParseNext == Parse \/ Evaluate

ParseSpec == ParseSpecInit /\ [][ParseNext]_vars

(***************************************************************************)
(* Claims about the scheduler                                              *)
(***************************************************************************)
QueuePos(id) == {i \in 1..Len(taskQueue) : taskQueue[i].id = id}
Held(id) == QueuePos(id) # {} \/ cur.id = id

\* C1: when executeFrame pauses a chunked task after k of its n chunks and
\* resubmits it, the queued task carries exactly the n-k chunks not yet
\* executed, in order.  (As stated; the code violates it.)
C1_RemainingSuffixRequeued ==
  lastPause # NoPause =>
    \E i \in QueuePos(lastPause.id) :
      taskQueue[i].chunks =
        SubSeq(lastPause.before, lastPause.k + 1, Len(lastPause.before))

\* C2: with no evaluation errors and no further arrivals, a queued chunked task
\* eventually has all its chunks consumed and leaves the queue for good, the
\* frame budget admitting fewer chunks than it has.  (As stated; the code
\* violates it.)
C2_ChunkedTaskCompletes ==
  \A id \in 1..MaxTasks :
    []((\E i \in QueuePos(id) : taskQueue[i].chunked) => <>[](~Held(id)))

\* C3: the queue is always ordered by non-increasing priority and executeFrame
\* pops its head, so tasks start in priority order; priorities 1, 5, 3
\* scheduled in that order and then drained start in the order 5, 3, 1.
C3_PriorityOrder ==
  /\ \A i, j \in 1..Len(taskQueue) :
       i < j => taskQueue[i].priority >= taskQueue[j].priority
  /\ cur # NoTask =>
       \A i \in 1..Len(taskQueue) : cur.priority >= taskQueue[i].priority
  /\ \A i, j \in 1..Len(startOrder) :
       (i < j /\ (preloaded \/ startOrder[j].id < startOrder[i].id))
         => startOrder[i].priority >= startOrder[j].priority
  /\ ( /\ preloaded
       /\ Len(startOrder) = 3
       /\ \A i \in 1..3 : /\ startOrder[i].id \in 1..3
                           /\ startOrder[i].priority = <<1, 5, 3>>[startOrder[i].id] )
     => [i \in 1..3 |-> startOrder[i].id] = <<2, 3, 1>>

\* C3 witness: priorities 1, 5, 3 were scheduled in that order before any pop
\* and all three have run within one frame whose clock did not advance.
C3_Drained153 ==
  /\ preloaded
  /\ startOrder = <<[id |-> 2, priority |-> 5], [id |-> 3, priority |-> 3],
                    [id |-> 1, priority |-> 1]>>
  /\ taskQueue = <<>>
  /\ cur = NoTask
  /\ pc = "loop"
  /\ elapsed = 0

\* C4: schedule places the task after every queued task of the same priority,
\* and of two tasks of equal priority the one scheduled first starts first.
C4_FifoAmongEquals ==
  /\ lastSched # 0 =>
       \A i \in QueuePos(lastSched), j \in 1..Len(taskQueue) :
         (j # i /\ taskQueue[j].priority = taskQueue[i].priority) => j < i
  /\ \A i, j \in 1..Len(startOrder) :
       (i < j /\ startOrder[i].priority = startOrder[j].priority)
         => startOrder[i].id < startOrder[j].id
  /\ \A j \in 1..Len(startOrder), i \in 1..Len(taskQueue) :
       ( /\ taskQueue[i].priority = startOrder[j].priority
         /\ taskQueue[i].id < startOrder[j].id )
         => Started(taskQueue[i].id)

\* C4 witness: two tasks of equal priority have both started, and a task was
\* just scheduled behind a queued task of its own priority.
C4_EqualPairStarted ==
  \E i, j \in 1..Len(startOrder) :
    /\ i < j
    /\ startOrder[i].priority = startOrder[j].priority
    /\ lastSched # 0
    /\ \E a \in QueuePos(lastSched), b \in 1..Len(taskQueue) :
         b < a /\ taskQueue[b].priority = taskQueue[a].priority

\* C5: a task is popped only while more than 2 ms of the frame remain, a chunk
\* is started only while more than 1 ms remains, and once 2 ms or less remain
\* at the loop test executeFrame returns and leaves the queue as it is.
C5_FrameBudget ==
  [][ /\ (cur = NoTask /\ cur' # NoTask)
          => (taskQueue # <<>> /\ Max(0, maxFrameTime - elapsed) > 2)
      /\ (pc = "chunk" /\ (chunkIndex' = chunkIndex + 1 \/ threw'))
          => Max(0, maxFrameTime - elapsed) > 1
      /\ (pc = "loop" /\ Max(0, maxFrameTime - elapsed) <= 2)
          => (pc' = "idle" /\ taskQueue' = taskQueue /\ cur' = NoTask)
    ]_vars

\* C5 witness: the loop test of executeFrame is reached with tasks queued, work
\* done in this frame and no more than 2 ms left.
C5_OutOfTime ==
  /\ pc = "loop"
  /\ taskQueue # <<>>
  /\ startOrder # <<>>
  /\ elapsed > 0
  /\ Max(0, maxFrameTime - elapsed) <= 2

\* C6: a unit of work that threw is abandoned: the failed simple task, or the
\* failed chunk, is not in the queue afterwards.  (As stated; the code
\* violates it.)
C6_FailedUnitAbandoned ==
  lastFail # NoFail =>
    \A i \in QueuePos(lastFail.id) :
      /\ lastFail.chunk # -1
      /\ \A n \in 1..Len(taskQueue[i].chunks) : taskQueue[i].chunks[n] # lastFail.chunk

\* C21: when a chunk of a task throws during an executeFrame call, no chunk
\* of that task is executed again during that call, and the failed chunk is
\* not placed back in the queue.
\* (As stated; the code violates it.)
C21_FailedTaskRestsThisFrame ==
  [][ /\ (pc = "chunk" /\ (chunkIndex' = chunkIndex + 1 \/ threw'))
          => cur.id \notin failedNow
      /\ (pc = "resched" /\ threw)
          => \A i \in 1..Len(taskQueue') :
               taskQueue'[i].id = cur.id =>
                 \A n \in 1..Len(taskQueue'[i].chunks) :
                   taskQueue'[i].chunks[n] # cur.chunks[chunkIndex + 1]
    ]_vars

\* C22: a non-chunked task that is popped was never popped before, is
\* evaluated in the step that follows and is then gone: that step reports
\* one completion when the evaluation succeeds and none when it throws, no
\* other step reports a completion, and no started non-chunked task is in
\* the queue.
C22_SimpleTaskOnce ==
  [][ /\ (pc = "loop" /\ pc' = "simple") => ~Started(cur'.id)
      /\ pc = "simple"
          => /\ pc' = "loop"
             /\ cur' = NoTask
             /\ taskQueue' = taskQueue
             /\ notified' = IF cur.throws THEN NoNote
                            ELSE [id |-> cur.id, result |-> EvalResult]
      /\ notified' # NoNote => (pc = "simple" /\ notified'.id = cur.id)
      /\ \A i \in 1..Len(taskQueue') :
           ~taskQueue'[i].chunked => ~Started(taskQueue'[i].id)
    ]_vars

\* C22 witness: a simple task has thrown without a completion, after another
\* simple task completed in the same frame, and neither is queued.
C22_ThrownAfterCompleted ==
  /\ lastFail # NoFail
  /\ lastFail.chunk = -1
  /\ notified = NoNote
  /\ Len(startOrder) >= 2
  /\ \A i \in 1..Len(startOrder) : QueuePos(startOrder[i].id) = {}
  /\ elapsed > 0

C31_FlowIdsUnique ==
  /\ Cardinality({f.task : f \in flows}) = nextId - 1
  /\ Cardinality({f.result : f \in flows}) = nextId - 1
  /\ \A i, j \in 1..Len(taskQueue) :
       i # j => taskQueue[i].id # taskQueue[j].id

\* C32: a call of executeFrame that has begun returns, whatever the queue
\* holds and whichever evaluations throw, also when no evaluation moves the
\* clock; and a call that returns with the frame time it began with still
\* above the pop threshold leaves the queue empty.
\* (As stated; the code violates it.)
C32_ExecuteFrameReturns ==
  /\ (pc # "idle") ~> (pc = "idle")
  /\ [][ (pc = "loop" /\ pc' = "idle" /\ getRemainingFrameTime(elapsed) > PopThreshold)
           => taskQueue' = <<>> ]_vars

\* C33: a task that finishes reports completion once: the step that ends
\* the run of a chunked task all of whose chunks were consumed, and the
\* evaluation of a simple task that does not throw, each produce one
\* completion notification for that task, and no other step produces one.
\* (As stated; the code violates it.)
C33_CompletionOnce ==
  [][ /\ (pc = "resched" /\ chunkIndex = Len(cur.chunks))
           => notified'.id = cur.id
      /\ (pc = "simple" /\ ~cur.throws) => notified'.id = cur.id
      /\ notified' # NoNote
           => \/ pc = "simple" /\ ~cur.throws
              \/ pc = "resched" /\ chunkIndex = Len(cur.chunks) ]_vars

\* C11: flow returns its result variable at once, and once the scheduler has
\* popped and evaluated the flow's task without error the result variable
\* eventually holds the evaluation result, frames running for ever.
\* (As stated; the code violates it.)
C11_ResultFilled ==
  \A f \in [task : 1..MaxDate, result : ResultNames] :
    []((f \in flows /\ notified = [id |-> f.task, result |-> EvalResult])
         => <>(value[f.result] = EvalResult))

\* C12: after any sequence of start, stop and frame callbacks, stop and start
\* called from a subscriber during a tick included, the host holds at most one
\* tick callback.  (As stated; the code violates it.)
C12_OnePendingTick == Cardinality(pending) <= 1

\* C13: variable(name, ...) is get-or-create: a call with a name the engine
\* holds returns the instance held, constructs nothing and leaves the value,
\* the flags and the subscribers alone whatever initial value it is given; a
\* call with a new name returns a new instance; an instance stays under its
\* name until dispose, and no two names share one.
C13_GetOrCreate ==
  [][ /\ lastOp'.op = "variable" =>
           LET x == lastOp'.var
           IN  /\ returned' = registry'[x]
               /\ returned' # 0
               /\ registry[x] # 0 =>
                    /\ returned' = registry[x]
                    /\ nextInst' = nextInst
                    /\ value' = value
                    /\ dirty' = dirty
                    /\ lastComputed' = lastComputed
                    /\ listeners' = listeners
                    /\ calls' = <<>>
               /\ registry[x] = 0 =>
                    /\ returned' = nextInst
                    /\ nextInst' = nextInst + 1
                    /\ \A y \in Names : registry[y] # returned'
      /\ \A x \in Names :
           (registry[x] # 0 /\ registry'[x] # registry[x]) => lastOp'.op = "dispose"
    ]_vars

\* C13 witness: variable was called with an initial value on a name whose
\* variable holds another value and has a subscriber; the instance held came
\* back, untouched.
C13_LaterInitialIgnored ==
  /\ lastOp.op = "variable"
  /\ lastOp.val # Undefined
  /\ lastOp.val # value[lastOp.var]
  /\ listeners[lastOp.var] # <<>>
  /\ returned = registry[lastOp.var]
  /\ returned # 0
  /\ calls = <<>>

\* C38: after style(element, {p: v}) with v a reactive variable that already
\* holds a defined value, the next flush applies v's current value to property
\* p of the element even if v never changes afterwards; and at any time at most
\* one pending application exists per (element, property) pair, holding the
\* most recently scheduled value.
StyleCalled == lastOp.op = "style" /\ value[lastOp.var] # Undefined
Flushed == lastOp'.op = "flush"
StyledTarget == BridgeTarget(lastOp.val)
PendingFor(apps, el, p) ==
  {i \in 1..Len(apps) : apps[i].element = el /\ apps[i].property = p}
C38_FlushAppliesCurrentValue ==
  (StyleCalled /\ Flushed) =>
     elementStyle'[StyledTarget[1]][toCSSProperty(PropertyChars(StyledTarget[2]))] =
       toCSSValue(StyledTarget[2], value[lastOp.var])
C38_OnePendingPerPair ==
  \A el \in Elements, p \in DomProperties :
    Cardinality(PendingFor(pendingApplications', el, p)) <= 1
C38_PendingHoldsLatest ==
  /\ lastOp'.op = "static" =>
       \E i \in 1..Len(pendingApplications') :
         /\ PairName(pendingApplications'[i].element,
                     pendingApplications'[i].property) = lastOp'.var
         /\ pendingApplications'[i].value = lastOp'.val
  /\ lastOp'.op = "set" =>
       \A j \in 1..Len(calls') :
         IsBridge(calls'[j].cb) =>
           \E i \in 1..Len(pendingApplications') :
             /\ pendingApplications'[i].element = BridgeTarget(calls'[j].cb)[1]
             /\ pendingApplications'[i].property = BridgeTarget(calls'[j].cb)[2]
             /\ pendingApplications'[i].value = value'[lastOp'.var]
C38_StyleAppliedAtNextFlush ==
  [][C38_FlushAppliesCurrentValue /\ C38_OnePendingPerPair /\ C38_PendingHoldsLatest]_vars
C38_PendingPart == [][C38_OnePendingPerPair /\ C38_PendingHoldsLatest]_vars

\* C39: right after dispose the engine holds no variable and no queued task,
\* and as long as it is not started again no host event (mousemove, resize)
\* and no frame callback that was pending creates or writes a variable of
\* the engine or runs a tick body.
\* (As stated; the code violates it.)
C39_DisposedEngineInert ==
  /\ [](lastOp.op = "dispose"
         => (\A x \in Names : ~Has(x)) /\ taskQueue = <<>>)
  /\ [][ ( /\ lastOp.op = "dispose"
           /\ \/ lastOp'.op = "event"
              \/ pending' # pending /\ pending' \subseteq pending )
         => /\ registry' = registry
            /\ value' = value
            /\ frameCount' = frameCount
            /\ tickStack' = tickStack ]_vars

\* C14: a cache built with maxSize >= 1 never stores more than maxSize
\* entries, whatever the keys, the empty string included.
\* (As stated; the code violates it.)
C14_SizeBounded == maxSize >= 1 => Len(cache) <= maxSize

\* The step is a call of set: the last call recorded is a set and the clock,
\* which no cache method moves, stands still.
SetCalled == cacheOp'.op = "set" /\ dateNow' = dateNow
GetCalled == cacheOp'.op = "get" /\ dateNow' = dateNow
CacheKeys(c) == {c[i].key : i \in 1..Len(c)}
LowestCount(a) == CHOOSE n \in {a[i].count : i \in 1..Len(a)} :
                    \A i \in 1..Len(a) : a[i].count >= n
\* The entry with the lowest counter, the earliest in the Map's order among
\* those tied for it.
FirstLowest(a) ==
  a[CHOOSE i \in 1..Len(a) :
      /\ a[i].count = LowestCount(a)
      /\ \A j \in 1..(i - 1) : a[j].count > LowestCount(a)].key

\* C25: a set into a full cache evicts the entry with the lowest access
\* counter, the earliest inserted among those tied for the lowest, and no
\* other; so an entry whose counter is above the lowest (the first key of
\* maxSize + 1 keys, read once more than the others) is still present after.
\* (As stated; the code violates it.)
C25_EvictsFirstLowest ==
  [][ (SetCalled /\ Len(cache) >= maxSize)
        => /\ CacheKeys(cache') =
                (CacheKeys(cache) \ {FirstLowest(accessCount)}) \cup {cacheOp'.key}
           /\ \A k \in CacheKeys(cache) :
                MapGet(accessCount, k).count > LowestCount(accessCount)
                  => k \in CacheKeys(cache') ]_vars

\* C36: set on a key the cache already holds replaces that key's entry and
\* removes no other key, also when the cache is at capacity.
\* (As stated; the code violates it.)
C36_OverwriteKeepsOthers ==
  [][ (SetCalled /\ cacheOp'.found) => CacheKeys(cache') = CacheKeys(cache) ]_vars

\* C40: whatever calls of set, get, has, delete and clear were made, with
\* entries expiring and being evicted, the entry map and the counter map
\* hold the same keys, in the same order, and every counter is at least 1.
C40_MapsAgree ==
  /\ Len(cache) = Len(accessCount)
  /\ \A i \in 1..Len(cache) : cache[i].key = accessCount[i].key
  /\ \A i \in 1..Len(accessCount) : accessCount[i].count >= 1

\* A set of a new key into a full cache has evicted an entry, the clock
\* having moved, and a key that was read is held with a counter above 1.
C40_AfterEviction ==
  /\ cacheOp.op = "set"
  /\ cacheOp.full
  /\ ~cacheOp.found
  /\ Len(cache) = maxSize
  /\ \E i \in 1..Len(cache) : cache[i].key # cacheOp.key
  /\ \E i \in 1..Len(accessCount) : accessCount[i].count > 1
  /\ dateNow > 1

\* C26: set with a ttlMs stores the expiration Date.now() + ttlMs and set
\* without one stores none; get on an entry whose expiration the clock is
\* past returns undefined and removes the entry and its counter (so the
\* access is not counted); get on an entry without expiration returns its
\* value and keeps it, whatever the clock.
C26_ExpiredNeverReturned ==
  [][ /\ SetCalled
          => MapGet(cache', cacheOp'.key).expiresAt =
               IF cacheOp'.ttl # 0 THEN dateNow + cacheOp'.ttl ELSE 0
      /\ (GetCalled /\ MapHas(cache, cacheOp'.key))
          => LET k == cacheOp'.key
                 e == MapGet(cache, k)
             IN  /\ (e.expiresAt # 0 /\ dateNow > e.expiresAt)
                      => /\ cacheRet' = Undefined
                         /\ cache' = MapDelete(cache, k)
                         /\ accessCount' = MapDelete(accessCount, k)
                 /\ e.expiresAt = 0
                      => /\ cacheRet' = e.value
                         /\ cache' = cache ]_vars

\* get found an entry past its expiration: it returned undefined and the
\* entry and its counter are gone, while an entry without ttlMs set no later
\* is still held.
C26_ExpiredEntryDropped ==
  /\ cacheOp.op = "get"
  /\ cacheOp.found
  /\ cacheRet = Undefined
  /\ ~MapHas(cache, cacheOp.key)
  /\ ~MapHas(accessCount, cacheOp.key)
  /\ \E i \in 1..Len(cache) : cache[i].expiresAt = 0

\* The entries of a mapping, whatever order they are listed in.
EntrySet(d) == {d[i] : i \in 1..Len(d)}
KeySet(d) == {d[i].key : i \in 1..Len(d)}
ValueAt(d, k) == (CHOOSE e \in EntrySet(d) : e.key = k).value

\* C15: for one expression, two mappings with the same name/value pairs give
\* the same key whatever order they list the pairs in, on every call.
C15_KeyOrderIndependent ==
  \A i, j \in 1..Len(keyCalls) :
    ( /\ keyCalls[i].expression = keyCalls[j].expression
      /\ EntrySet(keyCalls[i].dependencies) = EntrySet(keyCalls[j].dependencies) )
      => keyCalls[i].key = keyCalls[j].key

\* C15 witness: two calls with the same expression and the same two pairs,
\* listed in opposite orders, returned one key.
C15_SwappedPairsSameKey ==
  /\ Len(keyCalls) = 2
  /\ keyCalls[1].expression = keyCalls[2].expression
  /\ Len(keyCalls[1].dependencies) = 2
  /\ keyCalls[2].dependencies =
       <<keyCalls[1].dependencies[2], keyCalls[1].dependencies[1]>>
  /\ keyCalls[1].key = keyCalls[2].key

\* C16: for one expression, two mappings over the same names that differ in
\* the value of at least one name give different keys.
\* (As stated; the code violates it.)
C16_ValueChangesKey ==
  \A i, j \in 1..Len(keyCalls) :
    ( /\ keyCalls[i].expression = keyCalls[j].expression
      /\ KeySet(keyCalls[i].dependencies) = KeySet(keyCalls[j].dependencies)
      /\ \E k \in KeySet(keyCalls[i].dependencies) :
           ValueAt(keyCalls[i].dependencies, k) # ValueAt(keyCalls[j].dependencies, k) )
      => keyCalls[i].key # keyCalls[j].key

(***************************************************************************)
(* Claims about the parser and the evaluator                               *)
(***************************************************************************)
\* The names a text refers to, read off the text itself: its maximal runs of
\* word characters that are shaped like an identifier and are neither a
\* function name nor a keyword, each once, in the order of first appearance.
Keywords == {<<"i", "f">>, <<"f", "o", "r">>, <<"i", "n">>}
RECURSIVE NamesFrom(_, _, _)
NamesFrom(text, i, found) ==
  IF i > Len(text) THEN found
  ELSE IF ~IsWordChar(text[i]) THEN NamesFrom(text, i + 1, found)
  ELSE LET word == SubSeq(text, i, i + WordRun(text, i) - 1)
       IN  NamesFrom(text, i + WordRun(text, i),
                     IF /\ IsIdentifier(word)
                        /\ word \notin FunctionNames \cup Keywords
                        /\ ~InList(found, word)
                     THEN Append(found, word) ELSE found)
\* The text an expression reads: all of it, or what follows the first = of
\* an assignment.
AfterFirst(text, ch) ==
  LET at == MinOf({i \in 1..Len(text) : text[i] = ch})
  IN  SubSeq(text, at + 1, Len(text))
ReadText(text) ==
  IF isAssignment(trim(text)) THEN trim(AfterFirst(trim(text), "=")) ELSE trim(text)
Referenced(text) == NamesFrom(ReadText(text), 1, <<>>)

\* C17: parse(source).dependencies is exactly the list of the variable names
\* the source refers to, each once in first-seen order, function names and
\* the keywords if, for, in left out; it is empty when the source holds no
\* identifier.
\* (As stated; the code violates it.)
C17_ExactDependencies ==
  parsed # NoParse => parsed.dependencies = Referenced(source)

\* The value of a flat arithmetic text (numbers joined by + - *) under the
\* usual rules: * binds tighter than + and -, and equal operators group from
\* the left, so the text splits at its last + or -, else at its last *.
IsArithmeticTokens(tokens) ==
  /\ Len(tokens) % 2 = 1
  /\ \A i \in 1..Len(tokens) :
       IF i % 2 = 1 THEN tokens[i] # <<>> /\ \A j \in 1..Len(tokens[i]) : IsDigit(tokens[i][j])
       ELSE tokens[i] \in {<<"+">>, <<"-">>, <<"*">>}
RECURSIVE ArithmeticValue(_)
ArithmeticValue(tokens) ==
  LET additive == {i \in 1..Len(tokens) : tokens[i] \in {<<"+">>, <<"-">>}}
      products == {i \in 1..Len(tokens) : tokens[i] = <<"*">>}
      at == IF additive # {} THEN MaxOf(additive) ELSE MaxOf(products)
      l == ArithmeticValue(SubSeq(tokens, 1, at - 1))
      r == ArithmeticValue(SubSeq(tokens, at + 1, Len(tokens)))
  IN  IF Len(tokens) = 1 THEN parseFloat(tokens[1])
      ELSE IF tokens[at] = <<"+">> THEN l + r
      ELSE IF tokens[at] = <<"-">> THEN l - r
      ELSE l * r

\* C18: the value expression parse produces for an arithmetic source over
\* numeric literals evaluates to the arithmetic value of the source under
\* the usual precedence; the value expression of x = 2 + 3 * 4 evaluates
\* to 14.
\* (As stated; the code violates it.)
C18_ArithmeticValue ==
  ( /\ evaluated # NoValue
    /\ evaluated.expression.type = "operation"
    /\ IsArithmeticTokens(tokenize(ReadText(source))) )
  => /\ evaluated.result = JsNumber(ArithmeticValue(tokenize(ReadText(source))))
     /\ source = <<"x", " ", "=", " ", "2", " ", "+", " ", "3", " ", "*", " ", "4">>
          => evaluated.result = JsNumber(14)

\* The split point left-to-right grouping asks for: the position of the
\* rightmost operator of lowest precedence outside every parenthesis
\* (0: none).
DepthAt(tokens, i) ==
  Cardinality({j \in 1..(i - 1) : tokens[j] = <<"(">>})
    - Cardinality({j \in 1..(i - 1) : tokens[j] = <<")">>})
Balanced(tokens) ==
  /\ DepthAt(tokens, Len(tokens) + 1) = 0
  /\ \A i \in 1..Len(tokens) : DepthAt(tokens, i) >= 0
TopOperators(tokens) ==
  {i \in 1..Len(tokens) : IsOperator(tokens[i]) /\ DepthAt(tokens, i) = 0}
RightmostLowest(tokens) ==
  IF TopOperators(tokens) = {} THEN 0
  ELSE CHOOSE i \in TopOperators(tokens) :
         \A j \in TopOperators(tokens) :
           \/ Precedence(tokens[j]) > Precedence(tokens[i])
           \/ Precedence(tokens[j]) = Precedence(tokens[i]) /\ j <= i
VariableNode(name) == [type |-> "variable", name |-> name]
OperationNode(operator, left, right) ==
  [type |-> "operation", operator |-> operator, left |-> left, right |-> right]

\* C27: a math expression with matched parentheses whose tree is an
\* operation is split at the rightmost top-level operator of lowest
\* precedence, so that operators of equal precedence group from the left;
\* a - b - c parses to (a - b) - c.
\* (As stated; the code violates it.)
C27_GroupsLeftToRight ==
  ( /\ parsed # NoParse
    /\ parsed.type = "operation"
    /\ parsed.value.type = "operation"
    /\ Balanced(tokenize(trim(source))) )
  => LET tokens == tokenize(trim(source))
         at == RightmostLowest(tokens)
     IN  /\ at > 1
         /\ parsed.value.operator = tokens[at]
         /\ parsed.value.left = parseTokens(SubSeq(tokens, 1, at - 1))
         /\ parsed.value.right = parseTokens(SubSeq(tokens, at + 1, Len(tokens)))
         /\ source = <<"a", " ", "-", " ", "b", " ", "-", " ", "c">>
              => parsed.value =
                   OperationNode(<<"-">>,
                     OperationNode(<<"-">>, VariableNode(<<"a">>), VariableNode(<<"b">>)),
                     VariableNode(<<"c">>))

\* C28: parse makes a condition node of the ternary source a > b ? 1 : 0;
\* evaluating a condition node whose condition is a number literal gives the
\* true branch when the number is truthy (not 0) and the false branch
\* otherwise.
\* (As stated; the code violates it.)
C28_ConditionSelectsBranch ==
  /\ ( /\ parsed # NoParse
       /\ source = <<"a", " ", ">", " ", "b", " ", "?", " ", "1", " ", ":", " ", "0">> )
     => parsed.type = "condition"
  /\ ( /\ evaluated # NoValue
       /\ evaluated.expression.type = "condition"
       /\ evaluated.expression.value.condition.value.type = "number" )
     => LET v == evaluated.expression.value
        IN  evaluated.result =
              IF v.condition.value.value # 0 THEN v.trueBranch ELSE v.falseBranch

\* The complexities of the expressions an expression directly contains: the
\* value expression of an assignment, the condition and branches of a
\* conditional, the range and body of a loop, the operands of an operation
\* and the arguments of a function call.
SubComplexities(expression) ==
  LET v == expression.value
  IN  CASE expression.type = "variable" -> {v.expression.complexity}
        [] expression.type = "condition" ->
             {v.condition.complexity, v.trueBranch.complexity}
               \cup (IF v.falseBranch = Null THEN {} ELSE {v.falseBranch.complexity})
        [] expression.type = "loop" -> {v.range.complexity, v.body.complexity}
        [] expression.type = "operation" /\ v.type = "operation" ->
             {calculateComplexity(v.left), calculateComplexity(v.right)}
        [] expression.type = "operation" /\ v.type = "function" ->
             {calculateComplexity(v.arguments[i]) : i \in 1..Len(v.arguments)}
        [] OTHER -> {}

\* C29: the complexity of a parsed expression is never lower than that of
\* an expression it contains, whatever its kind (assignment, operation,
\* function call, block or ternary conditional, loop).
\* (As stated; the code violates it.)
C29_ComplexityMonotone ==
  parsed # NoParse => \A c \in SubComplexities(parsed) : parsed.complexity >= c

\* C30: for an assignment source parse splits once at the first =: the
\* target is the trimmed text before it, and the value expression, with its
\* dependencies, is the math expression of everything after it, further =
\* characters included.
\* (As stated; the code violates it.)
C30_SplitsOnceAtFirstEquals ==
  (parsed # NoParse /\ isAssignment(trim(source)))
  => LET text == trim(source)
         at == MinOf({i \in 1..Len(text) : text[i] = "="})
         rest == parseMathExpression(trim(AfterFirst(text, "=")))
     IN  /\ parsed.type = "variable"
         /\ parsed.value.variable = trim(SubSeq(text, 1, at - 1))
         /\ parsed.value.expression = rest
         /\ parsed.dependencies = rest.dependencies

(***************************************************************************)
(* Claims about the variables                                              *)
(***************************************************************************)
\* The variables reachable from x through dependent edges.
RECURSIVE Closure(_)
Closure(S) ==
  LET T == S \cup UNION {dependents[y] : y \in S}
  IN  IF T = S THEN S ELSE Closure(T)
Reach(x) == Closure(dependents[x])

Acyclic == \A x \in Vars : x \notin Reach(x)

\* C7: after set(v) with v different from the current value, every variable
\* reachable through dependent edges is dirty, whatever the flags were before.
\* Taken on graphs without a cycle, where propagation is specified.
\* (As stated; the code violates it.)
C7_AllReachableDirty ==
  [][ (Acyclic /\ lastOp'.op = "set" /\ ~StrictEq(value[lastOp'.var], lastOp'.val))
        => \A y \in Reach(lastOp'.var) : dirty'[y]
    ]_vars

C34_SetLeavesClean ==
  [][ (lastOp'.op = "set" /\ ~StrictEq(value[lastOp'.var], lastOp'.val))
        => ~dirty'[lastOp'.var]
    ]_vars

\* C8: set(v) with v strictly equal to the current value changes nothing: no
\* subscriber call, no dirty flag, neither the value nor the timestamp.
C8_SetSameValueNoOp ==
  [][ (lastOp'.op = "set" /\ StrictEq(value[lastOp'.var], lastOp'.val))
        => /\ calls' = <<>>
           /\ value' = value
           /\ dirty' = dirty
           /\ lastComputed' = lastComputed
    ]_vars

\* C8 witness: set was called with the value a dirty variable already holds,
\* the variable having subscribers and a dependent and the clock having moved.
C8_SameValueOnDirty ==
  /\ lastOp.op = "set"
  /\ StrictEq(value[lastOp.var], lastOp.val)
  /\ dirty[lastOp.var]
  /\ calls = <<>>
  /\ listeners[lastOp.var] # <<>>
  /\ dependents[lastOp.var] # {}
  /\ lastComputed[lastOp.var] < now

C10_MutualRelation ==
  \A x \in Vars, y \in Vars : (y \in dependencies[x]) <=> (x \in dependents[y])

\* C35: after compute(fn) with fn returning, the variable is not dirty, also
\* when it was dirty before and fn returned the value it already held.
\* (As stated; the code violates it.)
C35_ComputeLeavesClean ==
  [][ (lastOp'.op = "compute" /\ lastOp'.val # Thrown)
        => ~dirty'[lastOp'.var]
    ]_vars

\* The values a callback was handed, in the order of the calls.
RECURSIVE Received(_, _)
Received(c, cb) ==
  IF c = <<>> THEN <<>>
  ELSE (IF Head(c).cb = cb THEN <<Head(c).arg>> ELSE <<>>) \o Received(Tail(c), cb)

\* C37: when a subscriber calls set(v2) on the variable while it is being
\* notified of set(v1), v1 a new value other than v2, every subscriber is
\* handed v1 and then v2, each once.
\* (As stated; the code violates it.)
C37_ReentrantSetInOrder ==
  [][ ( /\ lastOp'.op = "set"
        /\ ~StrictEq(value[lastOp'.var], lastOp'.val)
        /\ lastOp'.val # EchoValue
        /\ \E i \in 1..Len(listeners[lastOp'.var]) :
             listeners[lastOp'.var][i] \in Reentrant )
      => \A i \in 1..Len(listeners[lastOp'.var]) :
           Received(calls', listeners[lastOp'.var][i]) = <<lastOp'.val, EchoValue>>
    ]_vars

\* C19: compute(fn) does not throw; when fn throws, the value and the dirty
\* flag of the variable are unchanged, no subscriber is called and no
\* dependent is marked; when fn returns r, the step is the step set(r) takes.
C19_ComputeForwardsOrLeaves ==
  [][ lastOp'.op = "compute"
        => LET x == lastOp'.var
           IN  /\ UNCHANGED <<dependencies, dependents, listeners, now>>
               /\ IF lastOp'.val = Thrown
                  THEN /\ calls' = <<>>
                       /\ UNCHANGED <<value, dirty, lastComputed>>
                  ELSE SetBody(x, lastOp'.val)
    ]_vars

\* C19 witness: a compute whose fn threw has left a variable that has a
\* subscriber and a clean dependent.
C19_ThrowingComputeLeft ==
  /\ lastOp.op = "compute"
  /\ lastOp.val = Thrown
  /\ calls = <<>>
  /\ listeners[lastOp.var] # <<>>
  /\ \E y \in dependents[lastOp.var] : ~dirty[y]

\* C20: when a subscriber throws during set(v), set still completes: every
\* subscriber, the throwing one and the others, is called once with v, and
\* every dependent is dirty afterwards.
C20_ThrowingSubscriberContained ==
  [][ ( /\ lastOp'.op = "set"
        /\ ~StrictEq(value[lastOp'.var], lastOp'.val)
        /\ \E i \in 1..Len(listeners[lastOp'.var]) :
             listeners[lastOp'.var][i] \in Throwing )
        => LET x == lastOp'.var
           IN  /\ \A i \in 1..Len(listeners[x]) :
                    Cardinality({j \in 1..Len(calls') :
                                   /\ calls'[j].cb = listeners[x][i]
                                   /\ calls'[j].arg = lastOp'.val}) = 1
               /\ \A y \in dependents[x] : dirty'[y]
    ]_vars

\* C20 witness: a set has called a throwing subscriber first and another
\* subscriber after it, and a dependent they saw clean is dirty now.
C20_ThrowingFirstBothCalled ==
  /\ lastOp.op = "set"
  /\ Len(calls) = 2
  /\ calls[1].cb \in Throwing
  /\ calls[2].cb \notin Throwing
  /\ \E y \in dependents[lastOp.var] : dirty[y] /\ ~calls[1].dirtySeen[y]

====
